---- MODULE Spec2Model ----
(***************************************************************************)
(* Model of the multi-layer thinking core                                  *)
(* (complete_multi_layer_thinking_core.py): the eight ThinkingLayer        *)
(* objects, the CompleteMultiLayerThinkingCore that owns them, and the     *)
(* learning store the core writes to after each layer.                     *)
(*                                                                         *)
(* Numbers.  Confidences and pair compatibilities are the literals of the  *)
(* source times ten (0.8 is 8).  Means are exact rationals <<n, d>> in     *)
(* lowest terms with d > 0; the rounding of Python floats is not modelled. *)
(* Wall-clock readings (timestamps, processing_time) are left out.         *)
(***************************************************************************)
EXTENDS Integers, Sequences, FiniteSets, TLC

(***************************************************************************)
(* Bounds                                                                  *)
(***************************************************************************)
MaxCalls == 2           \* calls made on the core in one behaviour

(***************************************************************************)
(* Rational arithmetic                                                     *)
(***************************************************************************)
Abs(x) == IF x < 0 THEN -x ELSE x

RECURSIVE Gcd(_, _)
Gcd(a, b) == IF b = 0 THEN a ELSE Gcd(b, a % b)

Rat(n, d) ==
    LET g == Gcd(Abs(n), Abs(d))
        s == IF d < 0 THEN -1 ELSE 1
    IN  IF n = 0 THEN <<0, 1>> ELSE <<(s * n) \div g, (s * d) \div g>>

RAdd(p, q) == Rat(p[1] * q[2] + q[1] * p[2], p[2] * q[2])
RMul(p, q) == Rat(p[1] * q[1], p[2] * q[2])
RDiv(p, q) == Rat(p[1] * q[2], p[2] * q[1])
RInt(k) == <<k, 1>>
Tenths(t) == Rat(t, 10)

(***************************************************************************)
(* ThinkingLayerType, LayerState                                           *)
(***************************************************************************)
ThinkingLayerType ==
    <<"mathematical", "logical", "interpretive", "physical",
      "linguistic", "symbolic", "visual", "semantic">>

LayerNames == {ThinkingLayerType[i] : i \in DOMAIN ThinkingLayerType}

LayerState == {"inactive", "processing", "active", "synchronized", "error"}

(***************************************************************************)
(* Inputs of the model                                                     *)
(***************************************************************************)
\* what isinstance() tells _mathematical_processing about the input
InputKinds == {"str", "number", "other"}

\* how the processing of one layer ends for a given input:
\*   "ok"       every step of process_input returns
\*   "degraded" the domain method (_x_processing) raises inside its own
\*              try/except, e.g. _is_prime(10**400) -> OverflowError
\*   "raise"    one of the three inherited theory methods raises
Outcomes == {"ok", "degraded", "raise"}

\* layers in which the model injects failures; the others always end "ok"
FaultLayers == {"mathematical", "logical"}

\* the value of synchronization_data.get(other) when the key is absent
NoSync == -1

\* the target_layers lists of the model: no list (every layer), one name,
\* a name that is no layer, a pair in both orders, a pair with a name that
\* is no layer, a name that is no layer twice, and a pair with one name
\* repeated
TargetLists ==
    {<< >>,
     <<"mathematical">>,
     <<"unknown">>,
     <<"mathematical", "logical">>,
     <<"logical", "mathematical">>,
     <<"mathematical", "unknown">>,
     <<"unknown", "unknown">>,
     <<"mathematical", "logical", "mathematical">>}

Range(seq) == {seq[i] : i \in DOMAIN seq}

OutcomeOf(faults, name) == IF name \in DOMAIN faults THEN faults[name] ELSE "ok"


(***************************************************************************)
(* ThinkingLayer                                                           *)
(***************************************************************************)
\* ThinkingLayer.__init__: the fields of a fresh layer
NewLayer ==
    [state |-> "inactive",
     total_processed |-> 0,
     success_rate |-> <<0, 1>>,
     synchronization_data |-> [other \in LayerNames |-> NoSync]]

\* the dictionary a domain method returns ("type" and "confidence" only)
Payload(type, confidence) ==
    [present |-> TRUE, type |-> type, confidence |-> confidence]

NoPayload == [present |-> FALSE, type |-> "", confidence |-> 0]

\* _specialized_processing and the eight _x_processing methods: each wraps
\* its body in try/except and answers {"type": "x_error", "confidence": 0.1}
\* when the body raises
_specialized_processing(layer_type, kind, outcome) ==
    IF outcome = "degraded" THEN Payload(layer_type \o "_error", 1)
    ELSE IF layer_type = "mathematical" THEN
        CASE kind = "str" -> Payload("mathematical_analysis", 8)
          [] kind = "number" -> Payload("numerical_analysis", 9)
          [] OTHER -> Payload("mathematical_general", 6)
    ELSE IF layer_type \in {"interpretive", "visual"} THEN
        Payload(layer_type \o "_analysis", 7)
    ELSE Payload(layer_type \o "_analysis", 8)

\* _update_performance_metrics that leaves success_rate alone on a failure
PerformanceKeepRateOnFailure(layer, success) ==
    LET n == layer.total_processed + 1
        current_success == RMul(layer.success_rate, RInt(n - 1))
    IN  [layer EXCEPT
            !.total_processed = n,
            !.success_rate =
                IF success THEN RDiv(RAdd(current_success, RInt(1)), RInt(n))
                ELSE @]

\* _update_performance_metrics, without the running mean of the durations
_update_performance_metrics(layer, success) ==
    LET n == layer.total_processed + 1
        current_success == RMul(layer.success_rate, RInt(n - 1))
    IN  [layer EXCEPT
            !.total_processed = n,
            !.success_rate =
                IF success THEN RDiv(RAdd(current_success, RInt(1)), RInt(n))
                ELSE RDiv(current_success, RInt(n))]

\* the except branch of process_input
ProcessInputExcept(layer, layer_type) ==
    [layer |-> _update_performance_metrics([layer EXCEPT !.state = "error"], FALSE),
     result |-> [layer_type |-> layer_type, error |-> TRUE,
                 specialized |-> NoPayload],
     trail |-> <<"processing", "error">>,
     outcome |-> "raise",
     escaped |-> FALSE]

\* process_input: the state goes to PROCESSING, the three theory methods
\* and the domain method run inside try, and the state ends ACTIVE or ERROR.
\* "trail" lists the states the layer is given in order; "escaped" tells
\* whether an exception leaves the method.
process_input(layer, layer_type, kind, outcome) ==
    IF outcome = "raise" THEN ProcessInputExcept(layer, layer_type)
    ELSE [layer |-> _update_performance_metrics([layer EXCEPT !.state = "active"], TRUE),
          result |-> [layer_type |-> layer_type, error |-> FALSE,
                      specialized |-> _specialized_processing(layer_type, kind, outcome)],
          trail |-> <<"processing", "active">>,
          outcome |-> outcome,
          escaped |-> FALSE]

\* compatibility_matrix of _calculate_compatibility, times ten
compatibility_matrix ==
    (<<"mathematical", "logical">> :> 9) @@
    (<<"symbolic", "visual">> :> 8) @@
    (<<"linguistic", "semantic">> :> 9) @@
    (<<"physical", "mathematical">> :> 8) @@
    (<<"interpretive", "semantic">> :> 8)

\* _calculate_compatibility without the lookup of the reversed pair
CompatibilityOneWay(self_type, other_type) ==
    IF <<self_type, other_type>> \in DOMAIN compatibility_matrix
        THEN compatibility_matrix[<<self_type, other_type>>]
    ELSE 5

\* _calculate_compatibility: the pair, else the reversed pair, else 0.5
_calculate_compatibility(self_type, other_type) ==
    LET layer_pair == <<self_type, other_type>>
        reverse_pair == <<other_type, self_type>>
    IN  IF layer_pair \in DOMAIN compatibility_matrix
            THEN compatibility_matrix[layer_pair]
        ELSE IF reverse_pair \in DOMAIN compatibility_matrix
            THEN compatibility_matrix[reverse_pair]
        ELSE 5

\* the state test of synchronize_with_layer with >= 0.5 for > 0.7
SyncStateLowThreshold(state, compatibility) ==
    IF compatibility >= 5 THEN "synchronized" ELSE state

\* the state synchronize_with_layer leaves the calling layer in
SyncState(state, compatibility) ==
    IF compatibility > 7 THEN "synchronized" ELSE state

\* synchronize_with_layer: only the calling layer is written; nothing in the
\* try block can raise, so the except branch (return 0.0) is never taken
synchronize_with_layer(layer, self_type, other_type) ==
    LET compatibility == _calculate_compatibility(self_type, other_type)
    IN  [layer |-> [layer EXCEPT
                       !.synchronization_data[other_type] = compatibility,
                       !.state = SyncState(@, compatibility)],
         score |-> compatibility]


\* synchronize_with_layer of multi_layer_thinking_core.py: the score it
\* returns for two layers, from their state and processing_count;
\* processing_depth is 0.0 in every layer, so that term is 0.4 * (1 - 0)
legacy_synchronize_with_layer(self_state, self_count, other_state, other_count) ==
    LET same_state == IF self_state = other_state THEN Rat(3, 10) ELSE <<0, 1>>
        low == IF self_count < other_count THEN self_count ELSE other_count
        high == IF self_count < other_count THEN other_count ELSE self_count
        activity == IF self_count > 0 /\ other_count > 0
                        THEN RMul(Rat(3, 10), Rat(low, high))
                    ELSE <<0, 1>>
    IN  RAdd(RAdd(same_state, Rat(4, 10)), activity)

(***************************************************************************)
(* The learning store behind database_manager                              *)
(***************************************************************************)
\* CompleteSpecializedDatabaseManager.__init__: every store open and empty
NewDatabase == [open |-> TRUE, sessions |-> [n \in LayerNames |-> 0]]

\* database_manager.store_learning(layer_name, learning_data): one learning
\* session is appended to the layer's store; a write to a closed store raises
store_learning(db, layer_name) ==
    IF ~db.open
        THEN [db |-> db, raised |-> TRUE]
    ELSE [db |-> [db EXCEPT !.sessions[layer_name] = @ + 1], raised |-> FALSE]

(***************************************************************************)
(* BaseSpecializedDatabase (specialized_databases.py): one sqlite file     *)
(* with the tables learning_sessions and discovered_patterns, and the      *)
(* attributes the object keeps beside it.                                  *)
(***************************************************************************)
\* BaseSpecializedDatabase.__init__ and _create_base_tables on a new file:
\* both tables empty, the AUTOINCREMENT counters at 0, learning_sessions 0.
\* "equations" is the number of rows MathematicalDatabase has stored in its
\* equations table.
\* "clock" stands for datetime.now(): it grows with every call.
NewStore ==
    [open |-> TRUE,
     learning_sessions_table |-> << >>,
     learning_sessions_seq |-> 0,
     discovered_patterns |-> << >>,
     discovered_patterns_seq |-> 0,
     learning_sessions |-> 0,
     equations |-> 0,
     clock |-> 0]

(***************************************************************************)
(* CompleteMultiLayerThinkingCore                                          *)
(***************************************************************************)
VARIABLES
    layers,                   \* self.layers: name -> ThinkingLayer
    synchronization_matrix,   \* self.synchronization_matrix
    core_statistics,          \* self.core_statistics
    processing_history,       \* self.processing_history
    database,                 \* self.database_manager
    ret,                      \* what the last call returned and did
    calls,                    \* number of calls made on the core so far
    specialized_db,           \* the database object(s) of the store and their files
    trace,                    \* the calls made on the store, in order
    threads                   \* the local variables of concurrent callers

vars == <<layers, synchronization_matrix, core_statistics, processing_history,
          database, ret, calls, specialized_db, trace, threads>>

coreVars == <<layers, synchronization_matrix, core_statistics, processing_history,
              database, ret, calls>>

storeVars == <<specialized_db, trace, threads>>

\* no store call made and no concurrent caller running
StoreIdle == specialized_db = NewStore /\ trace = << >> /\ threads = << >>

EmptyResults == [n \in {} |-> 0]

NoReport ==
    [total_layers |-> 0, successful_layers |-> 0, average_confidence |-> <<0, 1>>,
     dominant_themes |-> {}, cross_layer_insights |-> << >>,
     complexity_level |-> 0]

\* the dictionary of get_core_status before any call of it
NoStatus ==
    [total_layers |-> 0, active_layers |-> 0, total_processed |-> 0,
     success_rate |-> <<0, 1>>, average_sync_level |-> <<0, 1>>,
     database_connected |-> FALSE]

\* the shape of ret: the call and its inputs (op, kind, faults), the
\* dictionary returned (has_round tells whether it has the keys
\* layer_results, synchronization_level and integrated_analysis), the calls
\* made on the layers, and whether an exception left the call
NoReturn ==
    [op |-> "init", kind |-> "str", faults |-> EmptyResults,
     processing_layers |-> << >>, success |-> FALSE,
     has_round |-> FALSE, layer_results |-> EmptyResults,
     synchronization_level |-> <<0, 1>>, integrated_analysis |-> NoReport,
     process_calls |-> << >>, sync_calls |-> << >>, escaped |-> FALSE,
     status |-> NoStatus]

\* one pass through the body of the for loop of comprehensive_processing
\* (store = TRUE) and of targeted_processing (store = FALSE). acc holds the
\* layers, the results dictionary, the store, the process_input calls made
\* so far and whether an exception left the loop; p is what process_input
\* returned and did.
ProcessStep(acc, layer_name, p, store) ==
    LET w == IF store /\ ~p.escaped THEN store_learning(acc.database, layer_name)
             ELSE [db |-> acc.database, raised |-> FALSE]
        call == [layer |-> layer_name, before |-> acc.layers[layer_name],
                 trail |-> p.trail, outcome |-> p.outcome, escaped |-> p.escaped,
                 after |-> p.layer, result |-> p.result]
    IN  [layers |-> [acc.layers EXCEPT ![layer_name] = p.layer],
         results |-> IF p.escaped THEN acc.results
                     ELSE (layer_name :> p.result) @@ acc.results,
         database |-> w.db,
         calls |-> Append(acc.calls, call),
         raised |-> p.escaped \/ w.raised]

\* the for loop from position i on; names that are no layer are skipped.
\* (Each intermediate value is bound by a quantifier over a one-element
\* set, so that it is computed once.)
RECURSIVE ProcessLoop(_, _, _, _, _, _)
ProcessLoop(acc, active, i, kind, faults, store) ==
    IF i > Len(active) \/ acc.raised THEN acc
    ELSE IF active[i] \notin DOMAIN acc.layers
        THEN ProcessLoop(acc, active, i + 1, kind, faults, store)
    ELSE CHOOSE r \in
            {ProcessLoop(next, active, i + 1, kind, faults, store) :
                next \in {ProcessStep(acc, active[i], p, store) :
                    p \in {process_input(acc.layers[active[i]], active[i], kind,
                                         OutcomeOf(faults, active[i]))}}} : TRUE

\* the index pairs (i, j), i < j, in the order in which the two nested
\* loops over active_layers visit them
RECURSIVE PairsFrom(_, _, _)
PairsFrom(i, j, n) ==
    IF i > n THEN << >>
    ELSE IF j > n THEN PairsFrom(i + 1, i + 2, n)
    ELSE <<(<<i, j>>)>> \o PairsFrom(i, j + 1, n)

\* the body of the nested loops for one pair of registered names; s is what
\* synchronize_with_layer returned and did
SyncStep(acc, layer1_name, layer2_name, s) ==
    LET call == [self |-> layer1_name, other |-> layer2_name, score |-> s.score,
                 before |-> acc.layers[layer1_name].state, after |-> s.layer.state]
    IN  [layers |-> [acc.layers EXCEPT ![layer1_name] = s.layer],
         matrix |-> [[acc.matrix EXCEPT ![layer1_name][layer2_name] = s.score]
                        EXCEPT ![layer2_name][layer1_name] = s.score],
         total_sync |-> acc.total_sync + s.score,
         sync_count |-> acc.sync_count + 1,
         calls |-> Append(acc.calls, call)]

\* the nested loops over the pairs from position k on
RECURSIVE SyncLoop(_, _, _, _)
SyncLoop(acc, active, pairs, k) ==
    IF k > Len(pairs) THEN acc
    ELSE IF active[pairs[k][1]] \in DOMAIN acc.layers
            /\ active[pairs[k][2]] \in DOMAIN acc.layers
        THEN CHOOSE r \in
                {SyncLoop(next, active, pairs, k + 1) :
                    next \in {SyncStep(acc, active[pairs[k][1]], active[pairs[k][2]], s) :
                        s \in {synchronize_with_layer(acc.layers[active[pairs[k][1]]],
                                                      active[pairs[k][1]],
                                                      active[pairs[k][2]])}}} : TRUE
    ELSE SyncLoop(acc, active, pairs, k + 1)

\* the value returned without the division by sync_count
SyncTotal(total_sync, sync_count) ==
    IF sync_count > 0 THEN Tenths(total_sync) ELSE <<0, 1>>

\* the value the method returns after its loops
SyncMean(total_sync, sync_count) ==
    IF sync_count > 0 THEN RDiv(Tenths(total_sync), RInt(sync_count)) ELSE <<0, 1>>

\* _synchronize_layers looping over every layer of the core
SynchronizeEveryLayer(ls, matrix, active) ==
    IF Len(active) < 2
        THEN [layers |-> ls, matrix |-> matrix, level |-> <<1, 1>>, calls |-> << >>]
    ELSE CHOOSE r \in
            {[layers |-> done.layers, matrix |-> done.matrix,
              level |-> SyncMean(done.total_sync, done.sync_count),
              calls |-> done.calls] :
                done \in {SyncLoop([layers |-> ls, matrix |-> matrix, total_sync |-> 0,
                                    sync_count |-> 0, calls |-> << >>],
                                   ThinkingLayerType,
                                   PairsFrom(1, 2, Len(ThinkingLayerType)), 1)}} : TRUE

\* the method that synchronizes the layers of a round
_synchronize_layers(ls, matrix, active) ==
    IF Len(active) < 2
        THEN [layers |-> ls, matrix |-> matrix, level |-> <<1, 1>>, calls |-> << >>]
    ELSE CHOOSE r \in
            {[layers |-> done.layers, matrix |-> done.matrix,
              level |-> SyncMean(done.total_sync, done.sync_count),
              calls |-> done.calls] :
                done \in {SyncLoop([layers |-> ls, matrix |-> matrix, total_sync |-> 0,
                                    sync_count |-> 0, calls |-> << >>],
                                   active, PairsFrom(1, 2, Len(active)), 1)}} : TRUE

RECURSIVE SumConfidence(_, _)
SumConfidence(results, names) ==
    IF names = {} THEN 0
    ELSE LET n == CHOOSE x \in names : TRUE
         IN  results[n].specialized.confidence + SumConfidence(results, names \ {n})

\* _generate_cross_layer_insights without its last rule
InsightsWithoutLastRule(results) ==
    (IF {"mathematical", "physical"} \subseteq DOMAIN results
        THEN <<"mathematical_physical_convergence">> ELSE << >>) \o
    (IF {"symbolic", "visual"} \subseteq DOMAIN results
        THEN <<"symbolic_visual_harmony">> ELSE << >>) \o
    (IF {"linguistic", "semantic"} \subseteq DOMAIN results
        THEN <<"linguistic_semantic_coherence">> ELSE << >>)

\* _generate_cross_layer_insights
_generate_cross_layer_insights(results) ==
    (IF {"mathematical", "physical"} \subseteq DOMAIN results
        THEN <<"mathematical_physical_convergence">> ELSE << >>) \o
    (IF {"symbolic", "visual"} \subseteq DOMAIN results
        THEN <<"symbolic_visual_harmony">> ELSE << >>) \o
    (IF {"linguistic", "semantic"} \subseteq DOMAIN results
        THEN <<"linguistic_semantic_coherence">> ELSE << >>) \o
    (IF {"logical", "interpretive"} \subseteq DOMAIN results
        THEN <<"logical_interpretive_synthesis">> ELSE << >>)

\* every result counted, errored or not
SuccessfulAll(results) == DOMAIN results

\* the results _integrate_layer_results counts as successful
Successful(results) == {n \in DOMAIN results : ~results[n].error}

\* the results whose confidence _integrate_layer_results collects
WithConfidence(results) == {n \in Successful(results) : results[n].specialized.present}

\* _integrate_layer_results; of revolutionary_synthesis only complexity_level
\* (0 when the key is absent) is kept
_integrate_layer_results(results) ==
    LET confident == WithConfidence(results)
    IN  [total_layers |-> Cardinality(DOMAIN results),
         successful_layers |-> Cardinality(Successful(results)),
         average_confidence |->
             IF confident # {}
                 THEN RDiv(Tenths(SumConfidence(results, confident)),
                           RInt(Cardinality(confident)))
             ELSE <<0, 1>>,
         dominant_themes |-> {results[n].specialized.type : n \in confident},
         cross_layer_insights |-> _generate_cross_layer_insights(results),
         complexity_level |->
             IF Cardinality(DOMAIN results) >= 2 THEN Cardinality(DOMAIN results) ELSE 0]

\* _update_core_statistics with the average replaced by the last level
StatisticsLastLevel(stats, success, sync_level) ==
    [total_processed |-> stats.total_processed + 1,
     successful_processing |-> stats.successful_processing + (IF success THEN 1 ELSE 0),
     average_sync_level |-> sync_level]

\* _update_core_statistics
_update_core_statistics(stats, success, sync_level) ==
    LET total == stats.total_processed + 1
    IN  [total_processed |-> total,
         successful_processing |-> stats.successful_processing + (IF success THEN 1 ELSE 0),
         average_sync_level |->
             RDiv(RAdd(RMul(stats.average_sync_level, RInt(total - 1)), sync_level),
                  RInt(total))]

\* CompleteMultiLayerThinkingCore.__init__ and initialize_core
Init ==
    /\ layers = [n \in LayerNames |-> NewLayer]
    /\ synchronization_matrix =
           [a \in LayerNames |-> [b \in LayerNames |-> IF a = b THEN NoSync ELSE 0]]
    /\ core_statistics = [total_processed |-> 0, successful_processing |-> 0,
                          average_sync_level |-> <<0, 1>>]
    /\ database = NewDatabase
    /\ ret = NoReturn
    /\ calls = 0
    /\ processing_history = << >>
    /\ StoreIdle

\* what a call starts its for loop with
LoopStart ==
    [layers |-> layers, results |-> EmptyResults, database |-> database,
     calls |-> << >>, raised |-> FALSE]

\* the rest of comprehensive_processing after its for loop ended in done
AfterLoop(active_layers, kind, faults, done) ==
    /\ database' = done.database
    /\ IF done.raised
           THEN \* except Exception: error_result
                /\ layers' = done.layers
                /\ UNCHANGED synchronization_matrix
                /\ core_statistics' =
                       _update_core_statistics(core_statistics, FALSE, <<0, 1>>)
                /\ ret' = [NoReturn EXCEPT
                              !.op = "comprehensive_processing",
                              !.kind = kind,
                              !.faults = faults,
                              !.processing_layers = active_layers,
                              !.process_calls = done.calls]
       ELSE \E sync \in {_synchronize_layers(done.layers, synchronization_matrix,
                                              active_layers)} :
                /\ layers' = sync.layers
                /\ synchronization_matrix' = sync.matrix
                /\ core_statistics' =
                       _update_core_statistics(core_statistics, TRUE, sync.level)
                /\ ret' = [op |-> "comprehensive_processing",
                           kind |-> kind,
                           faults |-> faults,
                           processing_layers |-> active_layers,
                           success |-> TRUE,
                           has_round |-> TRUE,
                           layer_results |-> done.results,
                           synchronization_level |-> sync.level,
                           integrated_analysis |-> _integrate_layer_results(done.results),
                           process_calls |-> done.calls,
                           sync_calls |-> sync.calls,
                           escaped |-> FALSE,
                           status |-> NoStatus]

\* the list comprehensive_processing works on: target_layers None or empty
\* selects every layer
ActiveLayers(target_layers) ==
    IF target_layers = << >> THEN ThinkingLayerType ELSE target_layers

\* comprehensive_processing(input_data, target_layers)
comprehensive_processing(target_layers, kind, faults) ==
    \E done \in {ProcessLoop(LoopStart, ActiveLayers(target_layers), 1, kind,
                             faults, TRUE)} :
        AfterLoop(ActiveLayers(target_layers), kind, faults, done)

\* available_layers without the test "layer in self.layers"
AvailableLayersUnfiltered(target_layers) == target_layers

\* the names of target_layers that are layers
AvailableLayers(target_layers) ==
    SelectSeq(target_layers, LAMBDA n : n \in DOMAIN layers)

\* targeted_processing(input_data, target_layers): process_input on every
\* registered name of the list; no store, no synchronization, no statistics
targeted_processing(target_layers, kind, faults) ==
    \E done \in {ProcessLoop(LoopStart, AvailableLayers(target_layers), 1, kind,
                             faults, FALSE)} :
        /\ layers' = done.layers
        /\ ret' = [NoReturn EXCEPT
                      !.op = "targeted_processing",
                      !.kind = kind,
                      !.faults = faults,
                      !.processing_layers = AvailableLayers(target_layers),
                      !.success = AvailableLayers(target_layers) # << >>,
                      !.layer_results = done.results,
                      !.process_calls = done.calls,
                      !.escaped = done.raised]
        /\ UNCHANGED <<synchronization_matrix, core_statistics, database>>

\* shutdown_core that resets only the layers in state active
shutdown_core_active_only ==
    /\ database' = [database EXCEPT !.open = FALSE]
    /\ layers' = [n \in LayerNames |->
                     IF layers[n].state = "active"
                         THEN [layers[n] EXCEPT !.state = "inactive"]
                     ELSE layers[n]]
    /\ ret' = [NoReturn EXCEPT !.op = "shutdown_core"]
    /\ UNCHANGED <<synchronization_matrix, core_statistics>>

\* shutdown_core
shutdown_core ==
    /\ database' = [database EXCEPT !.open = FALSE]
    /\ layers' = [n \in LayerNames |-> [layers[n] EXCEPT !.state = "inactive"]]
    /\ ret' = [NoReturn EXCEPT !.op = "shutdown_core"]
    /\ UNCHANGED <<synchronization_matrix, core_statistics>>

\* max(x, 1)
AtLeastOne(x) == IF x > 1 THEN x ELSE 1

\* get_core_status counting only the layers in state active
CoreStatusActiveOnly ==
    [total_layers |-> Cardinality(DOMAIN layers),
     active_layers |-> Cardinality({n \in DOMAIN layers : layers[n].state = "active"}),
     total_processed |-> core_statistics.total_processed,
     success_rate |-> Rat(core_statistics.successful_processing,
                          AtLeastOne(core_statistics.total_processed)),
     average_sync_level |-> core_statistics.average_sync_level,
     database_connected |-> TRUE]

\* the dictionary get_core_status returns, without core_name, creation_time
\* and layer_details
CoreStatus ==
    [total_layers |-> Cardinality(DOMAIN layers),
     active_layers |-> Cardinality({n \in DOMAIN layers : layers[n].state # "inactive"}),
     total_processed |-> core_statistics.total_processed,
     success_rate |-> Rat(core_statistics.successful_processing,
                          AtLeastOne(core_statistics.total_processed)),
     average_sync_level |-> core_statistics.average_sync_level,
     database_connected |-> TRUE]

\* get_core_status: reads the layers and the statistics, assigns nothing
get_core_status ==
    /\ ret' = [NoReturn EXCEPT !.op = "get_core_status", !.status = CoreStatus]
    /\ UNCHANGED <<layers, synchronization_matrix, core_statistics, database>>

\* the failures that can show in a call over the given names, and the
\* input kinds that can change its result
FaultsOver(names) == [names \cap FaultLayers -> Outcomes]

KindsFor(names, faults) ==
    IF "mathematical" \in names /\ faults["mathematical"] = "ok"
        THEN {"str", "other"}
    ELSE {"str"}

Selected(target_layers) ==
    IF target_layers = << >> THEN LayerNames ELSE Range(target_layers)

Comprehensive ==
    /\ calls < MaxCalls
    /\ calls' = calls + 1
    /\ \E target_layers \in TargetLists :
           \E faults \in FaultsOver(Selected(target_layers)) :
               \E kind \in KindsFor(Selected(target_layers), faults) :
                   comprehensive_processing(target_layers, kind, faults)
    /\ UNCHANGED processing_history
    /\ UNCHANGED storeVars

Targeted ==
    /\ calls < MaxCalls
    /\ calls' = calls + 1
    /\ \E target_layers \in TargetLists :
           \E faults \in FaultsOver(Range(target_layers)) :
               \E kind \in KindsFor(Range(target_layers), faults) :
                   targeted_processing(target_layers, kind, faults)
    /\ UNCHANGED processing_history
    /\ UNCHANGED storeVars

Shutdown ==
    /\ calls < MaxCalls
    /\ calls' = calls + 1
    /\ shutdown_core
    /\ UNCHANGED processing_history
    /\ UNCHANGED storeVars

Next == Comprehensive \/ Targeted \/ Shutdown

Spec == Init /\ [][Next]_vars

\* the calls of Spec with get_core_status between them
GetCoreStatus ==
    /\ get_core_status
    /\ UNCHANGED calls
    /\ UNCHANGED processing_history
    /\ UNCHANGED storeVars

StatusNext == Comprehensive \/ Targeted \/ Shutdown \/ GetCoreStatus

StatusSpec == Init /\ [][StatusNext]_vars


(***************************************************************************)
(* _integrate_layer_results on its own: the results dictionary is what     *)
(* process_input returns for any set of layers, any input kind and any     *)
(* outcome of each layer.                                                  *)
(***************************************************************************)
IntegrateLayers == {"mathematical", "logical", "interpretive", "physical"}

ResultsOf(names, kind, outcomes) ==
    [n \in names |-> process_input(NewLayer, n, kind, outcomes[n]).result]

IntegrateInit ==
    /\ layers = [n \in LayerNames |-> NewLayer]
    /\ synchronization_matrix =
           [a \in LayerNames |-> [b \in LayerNames |-> IF a = b THEN NoSync ELSE 0]]
    /\ core_statistics = [total_processed |-> 0, successful_processing |-> 0,
                          average_sync_level |-> <<0, 1>>]
    /\ database = NewDatabase
    /\ calls = 0
    /\ processing_history = << >>
    /\ StoreIdle
    /\ \E names \in SUBSET IntegrateLayers :
           \E outcomes \in [names -> Outcomes], kind \in InputKinds :
               ret = [NoReturn EXCEPT
                         !.op = "results",
                         !.kind = kind,
                         !.faults = outcomes,
                         !.layer_results = ResultsOf(names, kind, outcomes)]

Integrate ==
    /\ ret.op = "results"
    /\ ret' = [ret EXCEPT
                  !.op = "_integrate_layer_results",
                  !.integrated_analysis = _integrate_layer_results(ret.layer_results)]
    /\ UNCHANGED <<layers, synchronization_matrix, core_statistics, database, calls>>
    /\ UNCHANGED processing_history
    /\ UNCHANGED storeVars

IntegrateNext == Integrate

IntegrateSpec == IntegrateInit /\ [][IntegrateNext]_vars

\* _integrate_layer_results on the results of any set of the eight layers;
\* the layers of FaultLayers end in any way, the others end "ok"
InsightInit ==
    /\ layers = [n \in LayerNames |-> NewLayer]
    /\ synchronization_matrix =
           [a \in LayerNames |-> [b \in LayerNames |-> IF a = b THEN NoSync ELSE 0]]
    /\ core_statistics = [total_processed |-> 0, successful_processing |-> 0,
                          average_sync_level |-> <<0, 1>>]
    /\ database = NewDatabase
    /\ calls = 0
    /\ processing_history = << >>
    /\ StoreIdle
    /\ \E names \in SUBSET LayerNames :
           \E faults \in FaultsOver(names) :
               ret = [NoReturn EXCEPT
                         !.op = "results",
                         !.faults = faults,
                         !.layer_results =
                             [n \in names |->
                                 process_input(NewLayer, n, "str",
                                               OutcomeOf(faults, n)).result]]

InsightSpec == InsightInit /\ [][IntegrateNext]_vars

(***************************************************************************)
(* Properties                                                              *)
(***************************************************************************)
Last(seq) == seq[Len(seq)]

Failed(outcome) == outcome \in {"degraded", "raise"}

Registered(target_layers) == SelectSeq(target_layers, LAMBDA n : n \in LayerNames)

IsRound == ret.op = "comprehensive_processing"

\* the layers the last call ran process_input on
Touched == {ret.process_calls[k].layer : k \in DOMAIN ret.process_calls}

\* the older core's score for two layers in the state and with the number
\* of process_input calls they have now
LegacyScore(a, b) ==
    legacy_synchronize_with_layer(layers[a].state, layers[a].total_processed,
                                  layers[b].state, layers[b].total_processed)

\* C1: process_input never raises to its caller; when the layer's processor
\* fails, the result returned carries an error and the layer is left in
\* state error.
C1_ProcessorFailureIsReported ==
    \A k \in DOMAIN ret.process_calls :
        LET c == ret.process_calls[k]
        IN  /\ ~c.escaped
            /\ Failed(c.outcome) => (c.result.error /\ c.after.state = "error")

\* C2: whatever state the layer is in, process_input first sets it to
\* processing and leaves it active when the processor succeeded and error
\* when it failed, never processing.
C2_ProcessEndsActiveOrErrored ==
    \A k \in DOMAIN ret.process_calls :
        LET c == ret.process_calls[k]
        IN  /\ c.trail[1] = "processing"
            /\ c.after.state = Last(c.trail)
            /\ c.after.state = (IF Failed(c.outcome) THEN "error" ELSE "active")

\* C3: the score synchronize_with_layer returns for a pair is the score it
\* returns for the reversed pair: every call made in a round returns what
\* the reversed call would return, two scores recorded for a pair in both
\* directions are equal, and the older core's score is symmetric too.
C3_SynchronizeIsSymmetric ==
    /\ \A k \in DOMAIN ret.sync_calls :
           LET c == ret.sync_calls[k]
           IN  c.score = synchronize_with_layer(layers[c.other], c.other, c.self).score
    /\ \A a \in LayerNames, b \in LayerNames :
           (/\ layers[a].synchronization_data[b] # NoSync
            /\ layers[b].synchronization_data[a] # NoSync)
               => layers[a].synchronization_data[b] = layers[b].synchronization_data[a]
    /\ \A a \in Touched, b \in LayerNames :
           LegacyScore(a, b) = LegacyScore(b, a)

\* C3 witness: logical has synchronized with mathematical (the reverse of
\* the table's order) and mathematical with logical, both scoring 0.9.
C3_Witness ==
    /\ layers["logical"].synchronization_data["mathematical"] = 9
    /\ layers["mathematical"].synchronization_data["logical"] = 9
    /\ \E k \in DOMAIN ret.sync_calls :
           ret.sync_calls[k].self = "logical" /\ ret.sync_calls[k].other = "mathematical"

\* C4: a round over two layers X, Y where X's processor fails and Y's
\* succeeds returns without raising, with X's result errored, Y's result not
\* errored, and Y processed once as a success.
C4_FailureIsIsolated ==
    \A x \in LayerNames, y \in LayerNames :
        (/\ IsRound
         /\ x # y
         /\ ret.processing_layers = <<x, y>>
         /\ Failed(OutcomeOf(ret.faults, x))
         /\ OutcomeOf(ret.faults, y) = "ok")
            => /\ ~ret.escaped
               /\ ret.has_round
               /\ DOMAIN ret.layer_results = {x, y}
               /\ ret.layer_results[x].error
               /\ ~ret.layer_results[y].error
               /\ ret.layer_results[y].specialized.present
               /\ Len(ret.process_calls) = 2
               /\ ret.process_calls[2].layer = y
               /\ ret.process_calls[2].after.state = "active"
               /\ ret.process_calls[2].after.total_processed
                      = ret.process_calls[2].before.total_processed + 1
               /\ layers[y].state \in {"active", "synchronized"}

\* C5: a round in which every selected layer fails still returns a result
\* for every selected layer, a synchronization level and an integrated
\* analysis whose successful_layers is 0.
C5_TotalFailureRoundIsComplete ==
    (/\ IsRound
     /\ Registered(ret.processing_layers) # << >>
     /\ \A n \in Range(Registered(ret.processing_layers)) :
            Failed(OutcomeOf(ret.faults, n)))
        => /\ ~ret.escaped
           /\ ret.has_round
           /\ DOMAIN ret.layer_results = Range(Registered(ret.processing_layers))
           /\ ret.integrated_analysis.successful_layers = 0

Errored(results) == {n \in DOMAIN results : results[n].error}

\* C6: successful_layers is the number of results without an error,
\* average_confidence is the mean of their confidences (0 when there are
\* none), total_layers - successful_layers is the number of errored
\* results; confidences 0.8 and 0.6 with one errored result give 0.7 and 2.
C6_AggregationIsCorrect ==
    ret.op = "_integrate_layer_results" =>
        LET results == ret.layer_results
            report == ret.integrated_analysis
            good == DOMAIN results \ Errored(results)
        IN  /\ report.successful_layers = Cardinality(good)
            /\ report.total_layers - report.successful_layers
                   = Cardinality(Errored(results))
            /\ report.average_confidence[2] > 0
            /\ report.average_confidence[1] * 10 * Cardinality(good)
                   = SumConfidence(results, good) * report.average_confidence[2]
            /\ good = {} => report.average_confidence = <<0, 1>>
            /\ (/\ DOMAIN results = {"mathematical", "logical", "physical"}
                /\ ~results["logical"].error
                /\ results["logical"].specialized.confidence = 8
                /\ ~results["mathematical"].error
                /\ results["mathematical"].specialized.confidence = 6
                /\ results["physical"].error)
                   => /\ report.average_confidence = <<7, 10>>
                      /\ report.successful_layers = 2

\* C6 witness: the report for confidences 0.8 and 0.6 and one errored result
C6_Witness ==
    /\ ret.op = "_integrate_layer_results"
    /\ DOMAIN ret.layer_results = {"mathematical", "logical", "physical"}
    /\ ret.layer_results["logical"].specialized.confidence = 8
    /\ ret.layer_results["mathematical"].specialized.confidence = 6
    /\ ret.layer_results["physical"].error
    /\ ret.integrated_analysis.average_confidence = <<7, 10>>
    /\ ret.integrated_analysis.successful_layers = 2

\* C7: a round in which fewer than two registered layers take part has
\* synchronization level 1.0.
C7_TrivialRoundScoresOne ==
    (IsRound /\ Len(Registered(ret.processing_layers)) < 2)
        => (ret.has_round /\ ret.synchronization_level = <<1, 1>>)

SyncPairs == {{ret.sync_calls[k].self, ret.sync_calls[k].other} : k \in DOMAIN ret.sync_calls}

RECURSIVE SumScores(_, _)
SumScores(sync_calls, k) ==
    IF k > Len(sync_calls) THEN 0
    ELSE sync_calls[k].score + SumScores(sync_calls, k + 1)

\* C8: in a round over N >= 2 layers, synchronize_with_layer is called once
\* for each of the C(N,2) unordered pairs of distinct layers, never for a
\* layer with itself or for both orders of a pair, and the round's level is
\* the mean of the scores.
C8_EachPairSynchronizedOnce ==
    LET selected == Range(Registered(ret.processing_layers))
        n == Cardinality(selected)
    IN  (IsRound /\ ret.has_round /\ n >= 2)
            => /\ \A k \in DOMAIN ret.sync_calls :
                      ret.sync_calls[k].self # ret.sync_calls[k].other
               /\ SyncPairs = {{a, b} : a \in selected, b \in selected} \ {{a} : a \in selected}
               /\ Len(ret.sync_calls) = (n * (n - 1)) \div 2
               /\ ret.synchronization_level[1] * 10 * Len(ret.sync_calls)
                      = SumScores(ret.sync_calls, 1) * ret.synchronization_level[2]

InUnitInterval(r) == r[2] > 0 /\ 0 <= r[1] /\ r[1] <= r[2]

\* C9: every score synchronize_with_layer returns or records, every level a
\* round returns and every score of the older core lie in [0, 1].
C9_ScoresInUnitInterval ==
    /\ \A k \in DOMAIN ret.sync_calls :
           0 <= ret.sync_calls[k].score /\ ret.sync_calls[k].score <= 10
    /\ \A a \in LayerNames, b \in LayerNames :
           /\ layers[a].synchronization_data[b] # NoSync
                  => layers[a].synchronization_data[b] \in 0..10
           /\ synchronization_matrix[a][b] # NoSync
                  => synchronization_matrix[a][b] \in 0..10
    /\ \A a \in Touched, b \in LayerNames : InUnitInterval(LegacyScore(a, b))
    /\ InUnitInterval(ret.synchronization_level)
    /\ InUnitInterval(core_statistics.average_sync_level)

\* C9 witness: a round with a failed layer that synchronized several pairs
C9_Witness ==
    /\ IsRound
    /\ ret.has_round
    /\ Len(ret.sync_calls) >= 3
    /\ \E n \in DOMAIN ret.layer_results : ret.layer_results[n].error
    /\ ret.synchronization_level # <<1, 1>>

\* the known-good pairs and their scores, as sets of two layer types
KnownGood ==
    ({"mathematical", "logical"} :> 9) @@
    ({"symbolic", "visual"} :> 8) @@
    ({"linguistic", "semantic"} :> 9) @@
    ({"physical", "mathematical"} :> 8) @@
    ({"interpretive", "semantic"} :> 8)

\* C10: synchronize_with_layer returns the table's score for a known-good
\* pair and 0.5 for any other pair, and moves the layer to synchronized only
\* if the score is above 0.7; a pair with the default score leaves the state
\* as it was.
C10_SynchronizedOnlyAboveThreshold ==
    \A k \in DOMAIN ret.sync_calls :
        LET c == ret.sync_calls[k]
        IN  /\ c.score = (IF {c.self, c.other} \in DOMAIN KnownGood
                              THEN KnownGood[{c.self, c.other}] ELSE 5)
            /\ c.after # c.before => (c.after = "synchronized" /\ c.score > 7)
            /\ c.score <= 7 => c.after = c.before
            /\ c.score = 5 /\ c.before # "synchronized" => c.after # "synchronized"

\* C10 witness: one round holds a call with the default score that left an
\* active layer active and a call above the threshold that synchronized one
C10_Witness ==
    /\ \E k \in DOMAIN ret.sync_calls :
           LET c == ret.sync_calls[k]
           IN  c.score = 5 /\ c.before = "active" /\ c.after = "active"
    /\ \E k \in DOMAIN ret.sync_calls :
           LET c == ret.sync_calls[k]
           IN  c.score > 7 /\ c.before = "active" /\ c.after = "synchronized"

\* C11: synchronize_with_layer moves a layer to synchronized only from
\* active: a layer that is in state error or inactive when the call runs is
\* left as it is, and a layer whose process_input failed in a round is still
\* in state error when the round returns.
C11_SynchronizedOnlyFromActive ==
    /\ \A k \in DOMAIN ret.sync_calls :
           LET c == ret.sync_calls[k]
           IN  /\ (c.after = "synchronized" /\ c.before # "synchronized")
                      => c.before = "active"
               /\ c.before \in {"error", "inactive"} => c.after = c.before
    /\ (IsRound /\ ret.has_round)
           => \A n \in DOMAIN ret.layer_results :
                  ret.layer_results[n].error => layers[n].state = "error"

\* C12: after synchronize_with_layer on the pair (A, B) returned score s,
\* A's synchronization_data holds s under B and B's synchronization_data
\* holds s under A.
C12_ScoreRecordedInBothLayers ==
    \A k \in DOMAIN ret.sync_calls :
        LET c == ret.sync_calls[k]
        IN  /\ layers[c.self].synchronization_data[c.other] = c.score
            /\ layers[c.other].synchronization_data[c.self] = c.score

(***************************************************************************)
(* BaseSpecializedDatabase: the calls on one store                         *)
(***************************************************************************)
MaxStoreCalls == 3      \* calls made on the store in one behaviour

\* the pattern_data values of the model: a list, a tuple with the same
\* items, a dictionary, and a set (which json cannot serialize)
PatternData == {"list_1_2", "tuple_1_2", "dict_a_1", "set_1"}

PatternIds == {"P", "Q"}

Confidences == {5, 9}

\* json.dumps(pattern_data): the text, or TypeError
json_dumps(data) ==
    CASE data = "list_1_2" -> [raised |-> FALSE, text |-> "[1, 2]"]
      [] data = "tuple_1_2" -> [raised |-> FALSE, text |-> "[1, 2]"]
      [] data = "dict_a_1" -> [raised |-> FALSE, text |-> "{\"a\": 1}"]
      [] data = "dict_empty" -> [raised |-> FALSE, text |-> "{}"]
      [] data = "dict_error" -> [raised |-> FALSE, text |-> "{\"error\": \"e\"}"]
      [] data = "dict_a_1_error" ->
             [raised |-> FALSE, text |-> "{\"a\": 1, \"error\": \"e\"}"]
      [] OTHER -> [raised |-> TRUE, text |-> ""]

\* the rows of a table without those whose column has the value
DeleteWhere(table, column, value) ==
    SelectSeq(table, LAMBDA row : row[column] # value)

\* INSERT OR IGNORE in place of INSERT OR REPLACE: a row whose pattern_id
\* is already stored is kept as it is
store_pattern_ignore(db, pattern_id, pattern_type, pattern_data, confidence) ==
    IF ~db.open \/ json_dumps(pattern_data).raised
        THEN [db |-> [db EXCEPT !.clock = @ + 1], raised |-> TRUE]
    ELSE IF \E i \in DOMAIN db.discovered_patterns :
                db.discovered_patterns[i].pattern_id = pattern_id
        THEN [db |-> [db EXCEPT !.clock = @ + 1], raised |-> FALSE]
    ELSE [db |-> [db EXCEPT
                    !.discovered_patterns =
                        Append(@, [id |-> db.discovered_patterns_seq + 1,
                                   pattern_id |-> pattern_id,
                                   pattern_type |-> pattern_type,
                                   pattern_data |-> json_dumps(pattern_data).text,
                                   confidence |-> confidence,
                                   discovery_date |-> db.clock + 1,
                                   usage_count |-> 0]),
                    !.discovered_patterns_seq = @ + 1,
                    !.clock = @ + 1],
          raised |-> FALSE]

\* store_pattern: INSERT OR REPLACE INTO discovered_patterns, pattern_id
\* being UNIQUE: the row with that pattern_id, if any, is deleted and a new
\* row takes the next AUTOINCREMENT id; usage_count falls back to its
\* default. A closed connection and an unserializable pattern_data raise
\* before anything is written.
store_pattern(db, pattern_id, pattern_type, pattern_data, confidence) ==
    IF ~db.open \/ json_dumps(pattern_data).raised
        THEN [db |-> [db EXCEPT !.clock = @ + 1], raised |-> TRUE]
    ELSE [db |-> [db EXCEPT
                    !.discovered_patterns =
                        Append(DeleteWhere(@, "pattern_id", pattern_id),
                               [id |-> db.discovered_patterns_seq + 1,
                                pattern_id |-> pattern_id,
                                pattern_type |-> pattern_type,
                                pattern_data |-> json_dumps(pattern_data).text,
                                confidence |-> confidence,
                                discovery_date |-> db.clock + 1,
                                usage_count |-> 0]),
                    !.discovered_patterns_seq = @ + 1,
                    !.clock = @ + 1],
          raised |-> FALSE]

SessionIds == {"s1", "s2"}

\* LearningSource values used by the model
LearningSources == {"user_interaction", "self_analysis"}

\* the metadata arguments of the model: None and a dictionary
Metadata == {"None", "dict_a_1"}

\* metadata or {}
MetadataOrEmpty(metadata) == IF metadata = "None" THEN "dict_empty" ELSE metadata

\* log_learning_session: INSERT OR REPLACE INTO learning_sessions,
\* session_id being UNIQUE, then commit, then learning_sessions += 1 and
\* last_update (the clock of the model); json.dumps(metadata or {}) or the
\* closed connection raises before anything is written
log_learning_session(db, session_id, source, data_type, success, metadata) ==
    IF ~db.open \/ json_dumps(MetadataOrEmpty(metadata)).raised
        THEN [db |-> [db EXCEPT !.clock = @ + 1], raised |-> TRUE]
    ELSE [db |-> [db EXCEPT
                    !.learning_sessions_table =
                        Append(DeleteWhere(@, "session_id", session_id),
                               [id |-> db.learning_sessions_seq + 1,
                                session_id |-> session_id,
                                timestamp |-> db.clock + 1,
                                source |-> source,
                                data_type |-> data_type,
                                success |-> success,
                                metadata |-> json_dumps(MetadataOrEmpty(metadata)).text]),
                    !.learning_sessions_seq = @ + 1,
                    !.learning_sessions = @ + 1,
                    !.clock = @ + 1],
          raised |-> FALSE]

\* close: the connection is closed
close(db) == [db EXCEPT !.open = FALSE]

StoreInit ==
    /\ layers = [n \in LayerNames |-> NewLayer]
    /\ synchronization_matrix =
           [a \in LayerNames |-> [b \in LayerNames |-> IF a = b THEN NoSync ELSE 0]]
    /\ core_statistics = [total_processed |-> 0, successful_processing |-> 0,
                          average_sync_level |-> <<0, 1>>]
    /\ database = NewDatabase
    /\ ret = NoReturn
    /\ calls = 0
    /\ processing_history = << >>
    /\ StoreIdle

StorePattern ==
    /\ Len(trace) < MaxStoreCalls
    /\ \E pattern_id \in PatternIds, pattern_data \in PatternData,
          confidence \in Confidences :
           \E done \in {store_pattern(specialized_db, pattern_id, "shape",
                                      pattern_data, confidence)} :
               /\ specialized_db' = done.db
               /\ trace' = Append(trace, [op |-> "store_pattern",
                                          pattern_id |-> pattern_id,
                                          pattern_data |-> pattern_data,
                                          confidence |-> confidence,
                                          raised |-> done.raised])
    /\ UNCHANGED threads
    /\ UNCHANGED coreVars

LogLearningSession ==
    /\ Len(trace) < MaxStoreCalls
    /\ \E session_id \in SessionIds, source \in LearningSources,
          success \in BOOLEAN :
           \E metadata \in (IF success THEN {"None"} ELSE {"dict_a_1"}) :
               \E done \in {log_learning_session(specialized_db, session_id, source,
                                                 "text", success, metadata)} :
                   /\ specialized_db' = done.db
                   /\ trace' = Append(trace, [op |-> "log_learning_session",
                                              session_id |-> session_id,
                                              source |-> source,
                                              data_type |-> "text",
                                              success |-> success,
                                              metadata |-> metadata,
                                              at |-> done.db.clock,
                                              raised |-> done.raised])
    /\ UNCHANGED threads
    /\ UNCHANGED coreVars

Close ==
    /\ Len(trace) < MaxStoreCalls
    /\ specialized_db.open
    /\ specialized_db' = close(specialized_db)
    /\ trace' = Append(trace, [op |-> "close", raised |-> FALSE])
    /\ UNCHANGED threads
    /\ UNCHANGED coreVars

StoreNext == StorePattern \/ LogLearningSession \/ Close

StoreSpec == StoreInit /\ [][StoreNext]_vars

\* the positions of the trace at which store_pattern wrote pattern_id
Upserts(pattern_id) ==
    {k \in DOMAIN trace :
        /\ trace[k].op = "store_pattern"
        /\ trace[k].pattern_id = pattern_id
        /\ ~trace[k].raised}

Max(S) == CHOOSE m \in S : \A k \in S : k <= m

RowsOf(table, column, value) ==
    {i \in DOMAIN table : table[i][column] = value}

\* C13: after any sequence of store_pattern calls the table holds exactly
\* one row for each pattern_id written and none for the others, and the row
\* carries the (serialized) pattern_data and the confidence of the last
\* store_pattern for that pattern_id.
C13_UpsertKeepsOneRowPerPattern ==
    \A pattern_id \in PatternIds :
        LET rows == RowsOf(specialized_db.discovered_patterns, "pattern_id", pattern_id)
        IN  IF Upserts(pattern_id) = {} THEN rows = {}
            ELSE /\ Cardinality(rows) = 1
                 /\ \A i \in rows :
                        LET last == trace[Max(Upserts(pattern_id))]
                            row == specialized_db.discovered_patterns[i]
                        IN  /\ row.pattern_data = json_dumps(last.pattern_data).text
                            /\ row.confidence = last.confidence

\* C13 witness: P was written twice with different pattern_data and
\* confidence, and the table holds one row for P, with the second values
C13_Witness ==
    /\ Len(trace) >= 2
    /\ trace[1].op = "store_pattern" /\ trace[2].op = "store_pattern"
    /\ trace[1].pattern_id = "P" /\ trace[2].pattern_id = "P"
    /\ ~trace[1].raised /\ ~trace[2].raised
    /\ trace[1].pattern_data = "list_1_2" /\ trace[2].pattern_data = "dict_a_1"
    /\ trace[1].confidence = 5 /\ trace[2].confidence = 9
    /\ Cardinality(RowsOf(specialized_db.discovered_patterns, "pattern_id", "P")) = 1
    /\ \E i \in DOMAIN specialized_db.discovered_patterns :
           /\ specialized_db.discovered_patterns[i].pattern_data = "{\"a\": 1}"
           /\ specialized_db.discovered_patterns[i].confidence = 9

\* the positions of the trace at which log_learning_session wrote session_id
Logs(session_id) ==
    {k \in DOMAIN trace :
        /\ trace[k].op = "log_learning_session"
        /\ trace[k].session_id = session_id
        /\ ~trace[k].raised}

Min(S) == CHOOSE m \in S : \A k \in S : m <= k

\* C14: log_learning_session is append-only: the row stored for a
\* session_id is the one its first log wrote (timestamp, source, data_type,
\* success, metadata), later logs of the same session_id change nothing, and
\* the session counter equals the number of stored sessions.
C14_LogSessionIsAppendOnly ==
    /\ \A session_id \in SessionIds :
           Logs(session_id) # {} =>
               LET first == trace[Min(Logs(session_id))]
                   rows == RowsOf(specialized_db.learning_sessions_table,
                                  "session_id", session_id)
               IN  /\ Cardinality(rows) = 1
                   /\ \A i \in rows :
                          LET row == specialized_db.learning_sessions_table[i]
                          IN  /\ row.timestamp = first.at
                              /\ row.source = first.source
                              /\ row.data_type = first.data_type
                              /\ row.success = first.success
                              /\ row.metadata = json_dumps(MetadataOrEmpty(first.metadata)).text
    /\ specialized_db.learning_sessions = Len(specialized_db.learning_sessions_table)

(***************************************************************************)
(* retrieve_knowledge: a manager holding a MathematicalDatabase and a       *)
(* LogicalDatabase (the tables their retrieve_knowledge reads), and no      *)
(* database for the semantic layer. Texts are sequences of characters;      *)
(* REAL columns are hundredths.                                             *)
(***************************************************************************)
MaxQueryCalls == 3      \* calls made on the manager in one behaviour

\* a stretch of Arabic text: one character that is no ASCII letter
Arabic == <<"ar">>

Text_alpha == <<"a", "l", "p", "h", "a">>

Text_beta == <<"b", "e", "t", "a">>

\* the constants _insert_initial_data puts into mathematical_constants
InitialConstants ==
    <<[id |-> 1, constant_name |-> <<"p", "i">>,
       constant_description |-> Arabic, precision_level |-> 15],
      [id |-> 2, constant_name |-> <<"e">>,
       constant_description |-> Arabic, precision_level |-> 15],
      [id |-> 3, constant_name |-> <<"g", "o", "l", "d", "e", "n", "_", "r", "a", "t", "i", "o">>,
       constant_description |-> Arabic, precision_level |-> 15],
      [id |-> 4, constant_name |-> <<"s", "q", "r", "t", "_", "2">>,
       constant_description |-> <<"ar", "2">>, precision_level |-> 15]>>

\* the rules _insert_initial_logical_data puts into logical_rules (two of
\* the four: one whose premise names P and Q, one all in Arabic)
InitialRules ==
    <<[id |-> 1, rule_id |-> "modus_ponens", rule_name |-> Arabic,
       premise |-> <<"ar", "P", "ar", "Q", "ar", "P", "ar">>,
       conclusion |-> <<"ar", "Q", "ar">>, confidence |-> 95, applications |-> 0],
      [id |-> 2, rule_id |-> "zero_duality_logic", rule_name |-> Arabic,
       premise |-> Arabic, conclusion |-> Arabic,
       confidence |-> 90, applications |-> 0]>>

\* CompleteSpecializedDatabaseManager.__init__ on new files
NewManager ==
    [open |-> TRUE,
     equations |-> << >>,
     equations_seq |-> 0,
     mathematical_constants |-> InitialConstants,
     logical_rules |-> InitialRules,
     logical_rules_seq |-> 2]

\* the layer types with a database in self.databases
RegisteredDatabases ==
    {"mathematical", "linguistic", "logical", "interpretive", "physical"}

\* SQLite folds the case of ASCII letters in LIKE
Lower(c) ==
    CASE c = "A" -> "a" [] c = "P" -> "p" [] c = "Q" -> "q" [] OTHER -> c

\* text LIKE pattern: % stands for any run of characters, _ for any one
RECURSIVE LikeMatch(_, _, _, _)
LikeMatch(pattern, i, text, j) ==
    IF i > Len(pattern) THEN j > Len(text)
    ELSE IF pattern[i] = "%"
        THEN \/ LikeMatch(pattern, i + 1, text, j)
             \/ (j <= Len(text) /\ LikeMatch(pattern, i, text, j + 1))
    ELSE /\ j <= Len(text)
         /\ (pattern[i] = "_" \/ Lower(pattern[i]) = Lower(text[j]))
         /\ LikeMatch(pattern, i + 1, text, j + 1)

\* text LIKE f'%{query}%'
Like(text, query) == LikeMatch(<<"%">> \o query \o <<"%">>, 1, text, 1)

\* ORDER BY ... DESC: keys[i] is the rank of rows[i], the columns of the
\* ORDER BY clause taken together; rows that tie come in the order of their
\* ids
RECURSIVE OrderByDesc(_, _)
OrderByDesc(rows, keys) ==
    IF rows = << >> THEN << >>
    ELSE LET first == CHOOSE i \in DOMAIN rows :
                          \A k \in DOMAIN rows :
                              k # i => \/ keys[i] > keys[k]
                                       \/ (keys[i] = keys[k] /\ i < k)
             Without(seq) == SubSeq(seq, 1, first - 1) \o SubSeq(seq, first + 1, Len(seq))
         IN  <<rows[first]>> \o OrderByDesc(Without(rows), Without(keys))

\* two columns of an ORDER BY clause as one rank (the second is below 1000)
Rank(major, minor) == major * 1000 + minor

\* LIMIT n and results[:n], n >= 0
Limit(rows, n) == SubSeq(rows, 1, IF n < Len(rows) THEN n ELSE Len(rows))

\* the dictionary retrieve_knowledge builds from a row of equations; the
\* columns are id, equation_id, equation_type, equation_formula, parameters,
\* domain, range_info, accuracy, usage_count, and 'accuracy' is taken from
\* row[6], 'usage_count' from row[7]
EquationResult(row) ==
    [type |-> "equation", equation_id |-> row.equation_id,
     equation_type |-> row.equation_type, formula |-> row.equation_formula,
     accuracy |-> row.range_info, usage_count |-> row.accuracy]

ConstantResult(row) ==
    [type |-> "constant", name |-> row.constant_name,
     description |-> row.constant_description, precision |-> row.precision_level]

RuleResult(row) ==
    [type |-> "logical_rule", rule_id |-> row.rule_id, rule_name |-> row.rule_name,
     premise |-> row.premise, conclusion |-> row.conclusion,
     confidence |-> row.confidence, applications |-> row.applications]

MapSeq(rows, Op(_)) == [i \in DOMAIN rows |-> Op(rows[i])]

\* MathematicalDatabase.retrieve_knowledge: the equations that match, by
\* accuracy and usage_count, then the constants that match, by
\* precision_level, each cut to limit, and the whole cut to limit
MathematicalRetrieve(db, query, limit) ==
    LET found == SelectSeq(db.equations,
                     LAMBDA row : Like(row.equation_type, query)
                                  \/ Like(row.equation_formula, query))
        eqs == Limit(OrderByDesc(found,
                        [i \in DOMAIN found |->
                            Rank(found[i].accuracy, found[i].usage_count)]),
                     limit)
        named == SelectSeq(db.mathematical_constants,
                     LAMBDA row : Like(row.constant_name, query)
                                  \/ Like(row.constant_description, query))
        consts == Limit(OrderByDesc(named,
                           [i \in DOMAIN named |-> named[i].precision_level]),
                        limit)
    IN  Limit(MapSeq(eqs, EquationResult) \o MapSeq(consts, ConstantResult), limit)

\* LogicalDatabase.retrieve_knowledge: the rules that match, by confidence
\* and applications, cut to limit
LogicalRetrieve(db, query, limit) ==
    LET found == SelectSeq(db.logical_rules,
                     LAMBDA row : \/ Like(row.rule_name, query)
                                  \/ Like(row.premise, query)
                                  \/ Like(row.conclusion, query))
        rules == Limit(OrderByDesc(found,
                          [i \in DOMAIN found |->
                              Rank(found[i].confidence, found[i].applications)]),
                       limit)
    IN  Limit(MapSeq(rules, RuleResult), limit)

\* retrieve_knowledge_from_layer: the layer's retrieve_knowledge when the
\* layer has a database, [] when it has none; a closed connection makes
\* cursor.execute raise sqlite3.ProgrammingError, which nothing catches
retrieve_knowledge_from_layer(db, layer_type, query, limit) ==
    IF layer_type \notin RegisteredDatabases
        THEN [raised |-> FALSE, results |-> << >>]
    ELSE IF ~db.open THEN [raised |-> TRUE, results |-> << >>]
    ELSE IF layer_type = "mathematical"
        THEN [raised |-> FALSE, results |-> MathematicalRetrieve(db, query, limit)]
    ELSE [raised |-> FALSE, results |-> LogicalRetrieve(db, query, limit)]

\* MathematicalDatabase.store_learning({'equation': ...}) -> _store_equation:
\* a plain INSERT under a fresh equation_id; range_info defaults to 'real'
\* (the model writes it as 0), usage_count to 0
_store_equation(db, equation_type, formula, accuracy) ==
    IF ~db.open THEN [db |-> db, raised |-> TRUE]
    ELSE [db |-> [db EXCEPT
                    !.equations =
                        Append(@, [id |-> db.equations_seq + 1,
                                   equation_id |-> db.equations_seq + 1,
                                   equation_type |-> equation_type,
                                   equation_formula |-> formula,
                                   range_info |-> 0,
                                   accuracy |-> accuracy,
                                   usage_count |-> 0]),
                    !.equations_seq = @ + 1],
          raised |-> FALSE]

\* LogicalDatabase.store_learning({'rule': ...}) -> _store_logical_rule
_store_logical_rule(db, name, confidence) ==
    IF ~db.open THEN [db |-> db, raised |-> TRUE]
    ELSE [db |-> [db EXCEPT
                    !.logical_rules =
                        Append(@, [id |-> db.logical_rules_seq + 1,
                                   rule_id |-> "rule",
                                   rule_name |-> name,
                                   premise |-> << >>,
                                   conclusion |-> << >>,
                                   confidence |-> confidence,
                                   applications |-> 0]),
                    !.logical_rules_seq = @ + 1],
          raised |-> FALSE]

\* close_all_databases
close_all_databases(db) == [db EXCEPT !.open = FALSE]

\* the records the model stores: alpha 0.9, beta 0.5 and beta 0.95
StoredRecords == {<<Text_alpha, 90>>, <<Text_beta, 50>>, <<Text_beta, 95>>}

Queries == {<<"a">>, <<"_">>, <<"z", "z">>}

Limits == {1, 10}

QueryInit ==
    /\ layers = [n \in LayerNames |-> NewLayer]
    /\ synchronization_matrix =
           [a \in LayerNames |-> [b \in LayerNames |-> IF a = b THEN NoSync ELSE 0]]
    /\ core_statistics = [total_processed |-> 0, successful_processing |-> 0,
                          average_sync_level |-> <<0, 1>>]
    /\ database = NewDatabase
    /\ ret = NoReturn
    /\ calls = 0
    /\ processing_history = << >>
    /\ specialized_db = NewManager
    /\ trace = << >>
    /\ threads = << >>

StoreEquation ==
    /\ Len(trace) < MaxQueryCalls
    /\ \E record \in StoredRecords :
           \E done \in {_store_equation(specialized_db, record[1], <<"x">>, record[2])} :
               /\ specialized_db' = done.db
               /\ trace' = Append(trace, [op |-> "_store_equation",
                                          raised |-> done.raised])
    /\ UNCHANGED threads
    /\ UNCHANGED coreVars

StoreLogicalRule ==
    /\ Len(trace) < MaxQueryCalls
    /\ \E record \in StoredRecords :
           \E done \in {_store_logical_rule(specialized_db, record[1], record[2])} :
               /\ specialized_db' = done.db
               /\ trace' = Append(trace, [op |-> "_store_logical_rule",
                                          raised |-> done.raised])
    /\ UNCHANGED threads
    /\ UNCHANGED coreVars

RetrieveKnowledge ==
    /\ Len(trace) < MaxQueryCalls
    /\ \E layer_type \in {"mathematical", "logical", "semantic"},
          query \in Queries, limit \in Limits :
           \E done \in {retrieve_knowledge_from_layer(specialized_db, layer_type,
                                                      query, limit)} :
               trace' = Append(trace, [op |-> "retrieve_knowledge_from_layer",
                                       layer_type |-> layer_type,
                                       query |-> query,
                                       limit |-> limit,
                                       open |-> specialized_db.open,
                                       raised |-> done.raised,
                                       results |-> done.results])
    /\ UNCHANGED <<specialized_db, threads>>
    /\ UNCHANGED coreVars

CloseAllDatabases ==
    /\ Len(trace) < MaxQueryCalls
    /\ specialized_db.open
    /\ specialized_db' = close_all_databases(specialized_db)
    /\ trace' = Append(trace, [op |-> "close_all_databases", raised |-> FALSE])
    /\ UNCHANGED threads
    /\ UNCHANGED coreVars

QueryNext == StoreEquation \/ StoreLogicalRule \/ RetrieveKnowledge \/ CloseAllDatabases

QuerySpec == QueryInit /\ [][QueryNext]_vars

\* query occurs in text, letter case ignored
Contains(text, query) ==
    \E k \in 0..(Len(text) - Len(query)) :
        \A i \in DOMAIN query : Lower(text[k + i]) = Lower(query[i])

\* a returned record has the query in one of its searchable fields
MatchesQuery(record, query) ==
    CASE record.type = "equation" ->
             Contains(record.equation_type, query) \/ Contains(record.formula, query)
      [] record.type = "constant" ->
             Contains(record.name, query) \/ Contains(record.description, query)
      [] OTHER ->
             \/ Contains(record.rule_name, query)
             \/ Contains(record.premise, query)
             \/ Contains(record.conclusion, query)

\* the ranking key of a returned record, in hundredths: the accuracy of the
\* equation stored under its equation_id, the precision of a constant, the
\* confidence of a rule
RankingKey(record) ==
    CASE record.type = "equation" ->
             specialized_db.equations[record.equation_id].accuracy
      [] record.type = "constant" -> record.precision * 100
      [] OTHER -> record.confidence

Retrievals ==
    {k \in DOMAIN trace :
        /\ trace[k].op = "retrieve_knowledge_from_layer"
        /\ trace[k].layer_type \in RegisteredDatabases
        /\ ~trace[k].raised}

\* C15: retrieve_knowledge(query, limit) returns at most limit records,
\* each with the query as a substring of a searchable field, in descending
\* order of the ranking key over the whole list; two equal calls with no
\* other call between them return the same list; alpha (0.9) comes before
\* beta (0.5) for the query "a".
C15_QueryIsRankedAndMatching ==
    /\ \A k \in Retrievals :
           LET results == trace[k].results
           IN  /\ Len(results) <= trace[k].limit
               /\ \A i \in DOMAIN results : MatchesQuery(results[i], trace[k].query)
               /\ \A i \in DOMAIN results, j \in DOMAIN results :
                      i < j => RankingKey(results[i]) >= RankingKey(results[j])
    /\ \A k \in Retrievals :
           (/\ k + 1 \in Retrievals
            /\ trace[k + 1].layer_type = trace[k].layer_type
            /\ trace[k + 1].query = trace[k].query
            /\ trace[k + 1].limit = trace[k].limit)
               => trace[k + 1].results = trace[k].results

\* C16: retrieve_knowledge_from_layer does not raise, and returns the empty
\* list for a layer type without a database and for a layer whose database
\* has been closed.
C16_QueryOnUnavailableStoreIsEmpty ==
    \A k \in DOMAIN trace :
        trace[k].op = "retrieve_knowledge_from_layer" =>
            /\ ~trace[k].raised
            /\ (trace[k].layer_type \notin RegisteredDatabases \/ ~trace[k].open)
                   => trace[k].results = << >>

(***************************************************************************)
(* log_learning_session called by several threads on one database object.  *)
(* The object has one connection (check_same_thread=False) and one cursor,  *)
(* and no lock: the steps of the calls interleave. A cursor that is in use  *)
(* refuses a second execute (sqlite3.ProgrammingError: Recursive use of     *)
(* cursors not allowed), and learning_sessions += 1 is a read followed by a *)
(* write.                                                                  *)
(***************************************************************************)
NumWriters == 2         \* threads calling log_learning_session

Writers == 1..NumWriters

\* the session ids of the writers, all distinct
WriterSessionId(t) == <<"w", t>>

\* the INSERT OR REPLACE of log_learning_session alone
insert_learning_session(db, session_id, source, data_type, success, metadata) ==
    [db EXCEPT
        !.learning_sessions_table =
            Append(DeleteWhere(@, "session_id", session_id),
                   [id |-> db.learning_sessions_seq + 1,
                    session_id |-> session_id,
                    timestamp |-> db.clock + 1,
                    source |-> source,
                    data_type |-> data_type,
                    success |-> success,
                    metadata |-> json_dumps(MetadataOrEmpty(metadata)).text]),
        !.learning_sessions_seq = @ + 1,
        !.clock = @ + 1]

ConcurrentLogInit ==
    /\ layers = [n \in LayerNames |-> NewLayer]
    /\ synchronization_matrix =
           [a \in LayerNames |-> [b \in LayerNames |-> IF a = b THEN NoSync ELSE 0]]
    /\ core_statistics = [total_processed |-> 0, successful_processing |-> 0,
                          average_sync_level |-> <<0, 1>>]
    /\ database = NewDatabase
    /\ ret = NoReturn
    /\ calls = 0
    /\ processing_history = << >>
    /\ specialized_db = NewStore
    /\ trace = << >>
    /\ \E success \in [Writers -> BOOLEAN] :
           threads = [t \in Writers |->
                         [pc |-> "call", success |-> success[t], read |-> 0]]

\* self.cursor.execute(...) starts: the cursor is busy when another thread
\* is inside its own execute
BeginExecute(t) ==
    /\ threads[t].pc = "call"
    /\ threads' = [threads EXCEPT ![t].pc =
                      IF \E o \in Writers : o # t /\ threads[o].pc = "execute"
                          THEN "raised" ELSE "execute"]
    /\ UNCHANGED <<specialized_db, trace>>
    /\ UNCHANGED coreVars

\* self.cursor.execute(...) returns: the row is written
EndExecute(t) ==
    /\ threads[t].pc = "execute"
    /\ specialized_db' =
           insert_learning_session(specialized_db, WriterSessionId(t),
                                   "user_interaction", "text",
                                   threads[t].success, "None")
    /\ threads' = [threads EXCEPT ![t].pc = "commit"]
    /\ UNCHANGED trace
    /\ UNCHANGED coreVars

\* self.connection.commit()
Commit(t) ==
    /\ threads[t].pc = "commit"
    /\ threads' = [threads EXCEPT ![t].pc = "read"]
    /\ UNCHANGED <<specialized_db, trace>>
    /\ UNCHANGED coreVars

\* self.learning_sessions += 1, the read
ReadCounter(t) ==
    /\ threads[t].pc = "read"
    /\ threads' = [threads EXCEPT ![t].pc = "write",
                                  ![t].read = specialized_db.learning_sessions]
    /\ UNCHANGED <<specialized_db, trace>>
    /\ UNCHANGED coreVars

\* self.learning_sessions += 1, the write
WriteCounter(t) ==
    /\ threads[t].pc = "write"
    /\ specialized_db' = [specialized_db EXCEPT
                             !.learning_sessions = threads[t].read + 1]
    /\ threads' = [threads EXCEPT ![t].pc = "done"]
    /\ UNCHANGED trace
    /\ UNCHANGED coreVars

ConcurrentLogNext ==
    \E t \in Writers :
        \/ BeginExecute(t)
        \/ EndExecute(t)
        \/ Commit(t)
        \/ ReadCounter(t)
        \/ WriteCounter(t)

ConcurrentLogSpec == ConcurrentLogInit /\ [][ConcurrentLogNext]_vars

WritersFinished == \A t \in Writers : threads[t].pc \in {"done", "raised"}

\* C17: when N threads have each called log_learning_session with a
\* session id of their own, the table holds N sessions, one for each id,
\* and learning_sessions is N.
C17_ConcurrentWritersLoseNothing ==
    WritersFinished =>
        /\ Len(specialized_db.learning_sessions_table) = NumWriters
        /\ \A t \in Writers :
               RowsOf(specialized_db.learning_sessions_table, "session_id",
                      WriterSessionId(t)) # {}
        /\ specialized_db.learning_sessions = NumWriters

(***************************************************************************)
(* comprehensive_processing called by several threads on one core. The     *)
(* core has no lock; each call ends in _update_core_statistics, whose       *)
(* three updates are each a read of core_statistics followed by a write.    *)
(* The rest of a round is taken by its outcome: the success flag and the    *)
(* sync_level it passes to _update_core_statistics.                         *)
(***************************************************************************)
NumCallers == 2         \* threads calling comprehensive_processing

Callers == 1..NumCallers

\* (success, sync_level) of a round: the except branch passes (False, 0.0)
RoundOutcomes ==
    {<<TRUE, <<1, 1>>>>, <<TRUE, <<19, 20>>>>, <<FALSE, <<0, 1>>>>}

ConcurrentStatsInit ==
    /\ layers = [n \in LayerNames |-> NewLayer]
    /\ synchronization_matrix =
           [a \in LayerNames |-> [b \in LayerNames |-> IF a = b THEN NoSync ELSE 0]]
    /\ core_statistics = [total_processed |-> 0, successful_processing |-> 0,
                          average_sync_level |-> <<0, 1>>]
    /\ database = NewDatabase
    /\ ret = NoReturn
    /\ calls = 0
    /\ processing_history = << >>
    /\ specialized_db = NewStore
    /\ trace = << >>
    /\ \E outcome \in [Callers -> RoundOutcomes] :
           threads = [t \in Callers |->
                         [pc |-> "total_read", success |-> outcome[t][1],
                          sync_level |-> outcome[t][2], read |-> 0,
                          current_avg |-> <<0, 1>>, total |-> 0]]

StatsRest == <<layers, synchronization_matrix, processing_history, database,
               ret, calls, specialized_db, trace>>

\* self.core_statistics['total_processed'] += 1, the read
ReadTotalProcessed(t) ==
    /\ threads[t].pc = "total_read"
    /\ threads' = [threads EXCEPT ![t].pc = "total_write",
                                  ![t].read = core_statistics.total_processed]
    /\ UNCHANGED <<core_statistics, StatsRest>>

\* self.core_statistics['total_processed'] += 1, the write
WriteTotalProcessed(t) ==
    /\ threads[t].pc = "total_write"
    /\ core_statistics' = [core_statistics EXCEPT
                              !.total_processed = threads[t].read + 1]
    /\ threads' = [threads EXCEPT ![t].pc =
                      IF threads[t].success THEN "successful_read" ELSE "avg_read"]
    /\ UNCHANGED StatsRest

\* self.core_statistics['successful_processing'] += 1, the read
ReadSuccessfulProcessing(t) ==
    /\ threads[t].pc = "successful_read"
    /\ threads' = [threads EXCEPT ![t].pc = "successful_write",
                                  ![t].read = core_statistics.successful_processing]
    /\ UNCHANGED <<core_statistics, StatsRest>>

\* self.core_statistics['successful_processing'] += 1, the write
WriteSuccessfulProcessing(t) ==
    /\ threads[t].pc = "successful_write"
    /\ core_statistics' = [core_statistics EXCEPT
                              !.successful_processing = threads[t].read + 1]
    /\ threads' = [threads EXCEPT ![t].pc = "avg_read"]
    /\ UNCHANGED StatsRest

\* current_avg = self.core_statistics['average_sync_level']
ReadCurrentAvg(t) ==
    /\ threads[t].pc = "avg_read"
    /\ threads' = [threads EXCEPT ![t].pc = "count_read",
                                  ![t].current_avg = core_statistics.average_sync_level]
    /\ UNCHANGED <<core_statistics, StatsRest>>

\* total = self.core_statistics['total_processed']
ReadTotal(t) ==
    /\ threads[t].pc = "count_read"
    /\ threads' = [threads EXCEPT ![t].pc = "avg_write",
                                  ![t].total = core_statistics.total_processed]
    /\ UNCHANGED <<core_statistics, StatsRest>>

\* self.core_statistics['average_sync_level'] = (current_avg * (total - 1) + sync_level) / total
WriteAverage(t) ==
    /\ threads[t].pc = "avg_write"
    /\ core_statistics' = [core_statistics EXCEPT
           !.average_sync_level =
               RDiv(RAdd(RMul(threads[t].current_avg, RInt(threads[t].total - 1)),
                         threads[t].sync_level),
                    RInt(threads[t].total))]
    /\ threads' = [threads EXCEPT ![t].pc = "done"]
    /\ UNCHANGED StatsRest

ConcurrentStatsNext ==
    \E t \in Callers :
        \/ ReadTotalProcessed(t)
        \/ WriteTotalProcessed(t)
        \/ ReadSuccessfulProcessing(t)
        \/ WriteSuccessfulProcessing(t)
        \/ ReadCurrentAvg(t)
        \/ ReadTotal(t)
        \/ WriteAverage(t)

ConcurrentStatsSpec == ConcurrentStatsInit /\ [][ConcurrentStatsNext]_vars

CallersFinished == \A t \in Callers : threads[t].pc = "done"

RECURSIVE SumSyncLevels(_)
SumSyncLevels(n) ==
    IF n = 0 THEN <<0, 1>> ELSE RAdd(SumSyncLevels(n - 1), threads[n].sync_level)

\* C18: when several comprehensive_processing calls have run concurrently
\* on one core and all have completed, total_processed is the number of
\* calls, successful_processing the number of successful ones, and
\* average_sync_level the mean of their sync levels.
C18_ConcurrentRoundsLoseNoStatistics ==
    CallersFinished =>
        /\ core_statistics.total_processed = NumCallers
        /\ core_statistics.successful_processing =
               Cardinality({t \in Callers : threads[t].success})
        /\ core_statistics.average_sync_level =
               RDiv(SumSyncLevels(NumCallers), RInt(NumCallers))

(***************************************************************************)
(* Statistics of the core under sequential calls (Spec)                    *)
(***************************************************************************)
\* the sum of the levels counted so far, as the statistics hold it
LevelSum(stats) == RMul(stats.average_sync_level, RInt(stats.total_processed))

\* C19: over a sequential series of calls, every comprehensive_processing
\* call that returns adds one to total_processed, adds one to
\* successful_processing exactly when the round succeeded, and adds the
\* round's synchronization level (0.0 for a round that ended in the except
\* branch) to average_sync_level times total_processed, which starts at 0:
\* the average is the mean of the levels so far. No other call changes the
\* statistics, and successful_processing never exceeds total_processed.
C19_StatisticsFollowTheRounds ==
    /\ [](/\ core_statistics.successful_processing <= core_statistics.total_processed
          /\ core_statistics.total_processed = 0 =>
                 core_statistics.average_sync_level = <<0, 1>>
          /\ InUnitInterval(core_statistics.average_sync_level))
    /\ [][IF ret'.op = "comprehensive_processing"
              THEN /\ core_statistics'.total_processed =
                          core_statistics.total_processed + 1
                   /\ core_statistics'.successful_processing =
                          core_statistics.successful_processing
                              + (IF ret'.success THEN 1 ELSE 0)
                   /\ LevelSum(core_statistics') =
                          RAdd(LevelSum(core_statistics),
                               IF ret'.success THEN ret'.synchronization_level
                               ELSE <<0, 1>>)
          ELSE UNCHANGED core_statistics]_vars

\* C19 witness: two rounds are counted and the second one's level is not
\* the first one's, so that the average is neither
C19_Witness ==
    /\ IsRound
    /\ ret.success
    /\ core_statistics.total_processed = 2
    /\ core_statistics.successful_processing = 2
    /\ core_statistics.average_sync_level # ret.synchronization_level
    /\ RAdd(core_statistics.average_sync_level, core_statistics.average_sync_level)
           # ret.synchronization_level

(***************************************************************************)
(* processing_history of the core                                          *)
(***************************************************************************)
\* C20: every comprehensive_processing call that has completed has appended
\* one round to processing_history: the history holds as many rounds as
\* total_processed counts.
C20_EveryRoundIsAppended ==
    Len(processing_history) = core_statistics.total_processed

(***************************************************************************)
(* shutdown_core                                                           *)
(***************************************************************************)
IsShutdown == ret.op = "shutdown_core"

\* C21: when shutdown_core returns, the stores are closed and every layer
\* is inactive, whether or not a round was processed before; it raises
\* nothing, and a shutdown_core that follows a shutdown_core changes nothing.
C21_ShutdownClosesAndIsIdempotent ==
    /\ [](IsShutdown =>
              /\ ~database.open
              /\ \A n \in LayerNames : layers[n].state = "inactive"
              /\ ~ret.escaped)
    /\ [][(IsShutdown /\ ret'.op = "shutdown_core" /\ calls' # calls) =>
              UNCHANGED <<layers, synchronization_matrix, core_statistics,
                          processing_history, database, ret>>]_vars

\* C21 witness: shutdown_core returned after a round that had left layers
\* synchronized and active
C21_Witness ==
    /\ IsShutdown
    /\ calls = 2
    /\ \E n \in LayerNames : layers[n].total_processed > 0
    /\ \E n \in LayerNames : layers[n].synchronization_data # NewLayer.synchronization_data

(***************************************************************************)
(* get_core_status (StatusSpec)                                            *)
(***************************************************************************)
IsStatus == ret.op = "get_core_status"

Inactive == {n \in LayerNames : layers[n].state = "inactive"}

\* C22: get_core_status reports the number of layers, the number of layers
\* that are not inactive (0 on a new core and 0 after shutdown_core) and
\* successful_processing / total_processed (0 when nothing was processed),
\* and it changes nothing but its return value.
C22_StatusReportsTheCore ==
    /\ [](IsStatus =>
              /\ ret.status.total_layers = Cardinality(LayerNames)
              /\ ret.status.active_layers + Cardinality(Inactive)
                     = Cardinality(LayerNames)
              /\ RMul(ret.status.success_rate, RInt(core_statistics.total_processed))
                     = RInt(core_statistics.successful_processing)
              /\ core_statistics.total_processed = 0 =>
                     ret.status.success_rate = <<0, 1>>)
    /\ [][ret'.op = "get_core_status" =>
              /\ UNCHANGED <<layers, synchronization_matrix, core_statistics,
                             processing_history, database, calls>>
              /\ (ret.op \in {"init", "shutdown_core"} =>
                      ret'.status.active_layers = 0)]_vars

\* C22 witness: a status taken after two rounds that left some layers
\* synchronized and others inactive
C22_Witness ==
    /\ IsStatus
    /\ core_statistics.total_processed = 2
    /\ \E n \in LayerNames : layers[n].state = "synchronized"
    /\ ret.status.active_layers \in 1..(Cardinality(LayerNames) - 1)

(***************************************************************************)
(* A failing store_learning inside a round (Spec)                          *)
(***************************************************************************)
\* C23: when store_learning raises for a layer of a round (the stores are
\* closed), the round still processes every selected layer, holds a result
\* for each of them, and returns a synchronization level and an integrated
\* analysis.
C23_StoreFailureIsIsolated ==
    (IsRound /\ ~database.open) =>
        /\ ret.has_round
        /\ \A k \in DOMAIN ret.processing_layers :
               ret.processing_layers[k] \in LayerNames =>
                   /\ ret.processing_layers[k] \in DOMAIN ret.layer_results
                   /\ ret.processing_layers[k] \in Touched

(***************************************************************************)
(* The order of the steps of one round, in comprehensive_processing of the *)
(* complete core and in process_with_all_layers of the older core. trace   *)
(* lists the calls made on the layers and the integration in the order in  *)
(* which the method makes them; threads holds the position in the method.  *)
(***************************************************************************)
Cores == {"complete", "legacy"}

\* the statement that follows the for loop over the layers, and the one
\* that follows it: the older core integrates before it synchronizes
PhaseAfterLegacy(core, phase) ==
    CASE phase = "loop" -> "integrate"
      [] phase = "integrate" -> "synchronize"
      [] phase = "synchronize" -> "done"

PhaseAfter(core, phase) ==
    IF core = "complete"
        THEN CASE phase = "loop" -> "synchronize"
               [] phase = "synchronize" -> "integrate"
               [] phase = "integrate" -> "done"
    ELSE CASE phase = "loop" -> "integrate"
           [] phase = "integrate" -> "synchronize"
           [] phase = "synchronize" -> "done"

\* ThinkingLayer.__init__ of the older core
NewLegacyLayer ==
    [state |-> "inactive", processing_count |-> 0, synchronization_level |-> <<0, 1>>]

\* process_input of the older core, on the layer's state and counter
legacy_process_input(layer, outcome) ==
    [layer EXCEPT !.state = IF outcome = "raise" THEN "error" ELSE "active",
                  !.processing_count = @ + 1]

\* _synchronize_all_layers of the older core: every layer but the last one
\* keeps the score of its last call, the one with the last layer
_synchronize_all_layers(ls) ==
    LET n == Len(ThinkingLayerType)
        last == ThinkingLayerType[n]
    IN  [name \in LayerNames |->
            IF name = last THEN ls[name]
            ELSE [ls[name] EXCEPT !.synchronization_level =
                     legacy_synchronize_with_layer(ls[name].state,
                                                   ls[name].processing_count,
                                                   ls[last].state,
                                                   ls[last].processing_count)]]

SyncEvents(active, pairs) ==
    [k \in DOMAIN pairs |-> <<"synchronize", active[pairs[k][1]], active[pairs[k][2]]>>]

OrderInit ==
    /\ layers = [n \in LayerNames |-> NewLayer]
    /\ synchronization_matrix =
           [a \in LayerNames |-> [b \in LayerNames |-> IF a = b THEN NoSync ELSE 0]]
    /\ core_statistics = [total_processed |-> 0, successful_processing |-> 0,
                          average_sync_level |-> <<0, 1>>]
    /\ database = NewDatabase
    /\ ret = NoReturn
    /\ calls = 0
    /\ processing_history = << >>
    /\ specialized_db = NewStore
    /\ trace = << >>
    /\ \E core \in Cores :
           \E target_layers \in (IF core = "complete" THEN TargetLists ELSE {<< >>}) :
               threads = [core |-> core,
                          active |-> ActiveLayers(target_layers),
                          i |-> 1,
                          pc |-> "loop",
                          results |-> EmptyResults,
                          sync_level |-> <<0, 1>>,
                          synchronized |-> FALSE,
                          legacy |-> [n \in LayerNames |-> NewLegacyLayer]]

OrderRest == <<core_statistics, ret, calls, processing_history, specialized_db>>

\* one pass through the for loop of comprehensive_processing
ProcessLayer ==
    /\ threads.core = "complete"
    /\ threads.pc = "loop"
    /\ threads.i <= Len(threads.active)
    /\ LET name == threads.active[threads.i]
       IN  IF name \in DOMAIN layers
               THEN \E outcome \in (IF name \in FaultLayers THEN Outcomes ELSE {"ok"}) :
                        \E p \in {process_input(layers[name], name, "str", outcome)} :
                            /\ layers' = [layers EXCEPT ![name] = p.layer]
                            /\ database' = store_learning(database, name).db
                            /\ trace' = Append(trace, <<"process", name>>)
                            /\ threads' = [threads EXCEPT
                                              !.i = @ + 1,
                                              !.results = (name :> p.result) @@ @]
           ELSE /\ threads' = [threads EXCEPT !.i = @ + 1]
                /\ UNCHANGED <<layers, database, trace>>
    /\ UNCHANGED <<synchronization_matrix, OrderRest>>

\* one pass through the for loop of process_with_all_layers
LegacyProcessLayer ==
    /\ threads.core = "legacy"
    /\ threads.pc = "loop"
    /\ threads.i <= Len(threads.active)
    /\ LET name == threads.active[threads.i]
       IN  \E outcome \in (IF name \in FaultLayers THEN {"ok", "raise"} ELSE {"ok"}) :
               /\ trace' = Append(trace, <<"process", name>>)
               /\ threads' = [threads EXCEPT
                                 !.i = @ + 1,
                                 !.legacy[name] = legacy_process_input(@, outcome)]
    /\ UNCHANGED <<layers, database, synchronization_matrix, OrderRest>>

\* the for loop is over
LoopEnd ==
    /\ threads.pc = "loop"
    /\ threads.i > Len(threads.active)
    /\ threads' = [threads EXCEPT !.pc = PhaseAfter(threads.core, "loop")]
    /\ UNCHANGED <<layers, database, synchronization_matrix, trace, OrderRest>>

\* sync_level = self._synchronize_layers(active_layers)
SynchronizeLayers ==
    /\ threads.core = "complete"
    /\ threads.pc = "synchronize"
    /\ \E sync \in {_synchronize_layers(layers, synchronization_matrix, threads.active)} :
           /\ layers' = sync.layers
           /\ synchronization_matrix' = sync.matrix
           /\ trace' = trace \o [k \in DOMAIN sync.calls |->
                                    <<"synchronize", sync.calls[k].self, sync.calls[k].other>>]
           /\ threads' = [threads EXCEPT
                             !.sync_level = sync.level,
                             !.synchronized = TRUE,
                             !.pc = PhaseAfter("complete", "synchronize")]
    /\ UNCHANGED <<database, OrderRest>>

\* self._synchronize_all_layers()
LegacySynchronizeAll ==
    /\ threads.core = "legacy"
    /\ threads.pc = "synchronize"
    /\ trace' = trace \o SyncEvents(ThinkingLayerType,
                                    PairsFrom(1, 2, Len(ThinkingLayerType)))
    /\ threads' = [threads EXCEPT
                      !.legacy = _synchronize_all_layers(@),
                      !.synchronized = TRUE,
                      !.pc = PhaseAfter("legacy", "synchronize")]
    /\ UNCHANGED <<layers, database, synchronization_matrix, OrderRest>>

\* integrated_analysis = self._integrate_layer_results(results), and in the
\* older core the three statements from _integrate_layer_results to
\* _synthesize_final_result
IntegrateResults ==
    /\ threads.pc = "integrate"
    /\ trace' = Append(trace, <<"integrate", threads.synchronized>>)
    /\ threads' = [threads EXCEPT !.pc = PhaseAfter(threads.core, "integrate")]
    /\ UNCHANGED <<layers, database, synchronization_matrix, OrderRest>>

OrderNext ==
    \/ ProcessLayer
    \/ LegacyProcessLayer
    \/ LoopEnd
    \/ SynchronizeLayers
    \/ LegacySynchronizeAll
    \/ IntegrateResults

OrderSpec == OrderInit /\ [][OrderNext]_vars

Events(kind) == {k \in DOMAIN trace : trace[k][1] = kind}

\* no synchronize_with_layer call before the last process_input call
SynchronizeAfterProcess ==
    \A p \in Events("process"), q \in Events("synchronize") : p < q

\* the integration after the level of the round is computed and after every
\* synchronize_with_layer call
IntegrateAfterSynchronize ==
    \A g \in Events("integrate") :
        /\ trace[g][2]
        /\ \A q \in Events("synchronize") : q < g

MaxLayerCalls == 8      \* process_input calls on the layer

LayerInit ==
    /\ layers = [n \in LayerNames |-> NewLayer]
    /\ synchronization_matrix =
           [a \in LayerNames |-> [b \in LayerNames |-> IF a = b THEN NoSync ELSE 0]]
    /\ core_statistics = [total_processed |-> 0, successful_processing |-> 0,
                          average_sync_level |-> <<0, 1>>]
    /\ database = NewDatabase
    /\ ret = NoReturn
    /\ calls = 0
    /\ processing_history = << >>
    /\ specialized_db = NewStore
    /\ trace = << >>
    /\ \E name \in FaultLayers :
           threads = [layer |-> name, calls |-> 0, succeeded |-> 0]

\* layer.process_input(input_data), by the way it ends
ProcessInput(outcome) ==
    /\ threads.calls < MaxLayerCalls
    /\ \E kind \in {"str", "other"} :
           \E p \in {process_input(layers[threads.layer], threads.layer, kind, outcome)} :
               /\ layers' = [layers EXCEPT ![threads.layer] = p.layer]
               /\ trace' = p.trail
    /\ threads' = [threads EXCEPT
                      !.calls = @ + 1,
                      !.succeeded = @ + (IF outcome = "raise" THEN 0 ELSE 1)]
    /\ UNCHANGED <<synchronization_matrix, core_statistics, database, ret, calls,
                   processing_history, specialized_db>>

LayerNext == \E outcome \in Outcomes : ProcessInput(outcome)

LayerSpec == LayerInit /\ [][LayerNext]_vars

CannedInsights ==
    ({"mathematical", "physical"} :> "mathematical_physical_convergence") @@
    ({"symbolic", "visual"} :> "symbolic_visual_harmony") @@
    ({"linguistic", "semantic"} :> "linguistic_semantic_coherence") @@
    ({"logical", "interpretive"} :> "logical_interpretive_synthesis")

\* C26: cross_layer_insights holds the insight of a pair exactly when both
\* layer types have a result in the round, each once and nothing else;
\* dominant_themes holds the type tag of every result without error, one
\* tag for each such layer, and no tag of an errored result.
C26_InsightsAndThemes ==
    ret.op = "_integrate_layer_results" =>
        LET results == ret.layer_results
            report == ret.integrated_analysis
            insights == report.cross_layer_insights
            good == DOMAIN results \ Errored(results)
        IN  /\ \A pair \in DOMAIN CannedInsights :
                   (pair \subseteq DOMAIN results)
                       <=> (\E k \in DOMAIN insights : insights[k] = CannedInsights[pair])
            /\ \A k \in DOMAIN insights :
                   \E pair \in DOMAIN CannedInsights : insights[k] = CannedInsights[pair]
            /\ \A k, l \in DOMAIN insights : insights[k] = insights[l] => k = l
            /\ \A n \in good : results[n].specialized.type \in report.dominant_themes
            /\ Cardinality(report.dominant_themes) = Cardinality(good)
            /\ \A n \in Errored(results), tag \in report.dominant_themes :
                   tag \notin {n \o "_analysis", n \o "_error"}

\* C26 witness: all four pairs are present, one layer of a pair errored
C26_Witness ==
    /\ ret.op = "_integrate_layer_results"
    /\ DOMAIN ret.layer_results = LayerNames
    /\ Len(ret.integrated_analysis.cross_layer_insights) = 4
    /\ ret.layer_results["mathematical"].error
    /\ ~ret.layer_results["logical"].error
    /\ Cardinality(ret.integrated_analysis.dominant_themes) = 7

LearningData == {"plain", "equation_dict", "equation_int"}

\* the metadata arguments: None, a dictionary, a dictionary holding a set
LearningMetadata == {"None", "dict_a_1", "dict_set"}

\* {**(metadata or {}), 'error': str(e)}
WithError(metadata) ==
    CASE metadata = "None" -> "dict_error"
      [] metadata = "dict_a_1" -> "dict_a_1_error"
      [] OTHER -> "dict_set_error"

\* _store_equation: equation_data.get raises for a value that is no
\* dictionary, execute raises on a closed connection
_store_equation_row(db, data) ==
    IF data = "equation_int" \/ ~db.open
        THEN [db |-> db, raised |-> TRUE]
    ELSE [db |-> [db EXCEPT !.equations = @ + 1], raised |-> FALSE]

\* MathematicalDatabase.store_learning: the try block stores the data and
\* logs the session with success True; the except block logs it with
\* success False, and what that call raises leaves the method
mathematical_store_learning(db, session_id, data, source, metadata) ==
    LET stored == IF data = "plain" THEN [db |-> db, raised |-> FALSE]
                  ELSE _store_equation_row(db, data)
        logged == log_learning_session(stored.db, session_id, source,
                                       "mathematical_data", TRUE, metadata)
        failed == log_learning_session(stored.db, session_id, source,
                                       "mathematical_data", FALSE, WithError(metadata))
    IN  IF ~stored.raised /\ ~logged.raised
            THEN [db |-> logged.db, raised |-> FALSE]
        ELSE [db |-> failed.db, raised |-> failed.raised]

LearnInit ==
    /\ layers = [n \in LayerNames |-> NewLayer]
    /\ synchronization_matrix =
           [a \in LayerNames |-> [b \in LayerNames |-> IF a = b THEN NoSync ELSE 0]]
    /\ core_statistics = [total_processed |-> 0, successful_processing |-> 0,
                          average_sync_level |-> <<0, 1>>]
    /\ database = NewDatabase
    /\ ret = NoReturn
    /\ calls = 0
    /\ processing_history = << >>
    /\ specialized_db = NewStore
    /\ trace = << >>
    /\ threads = [learning_sessions |-> 0]

\* store_learning_for_layer(layer_type, data, source, metadata)
StoreLearningForLayer ==
    /\ Len(trace) < MaxStoreCalls
    /\ \E layer_type \in {"mathematical", "symbolic"}, data \in LearningData,
          metadata \in LearningMetadata :
           IF layer_type \in RegisteredDatabases
               THEN \E done \in {mathematical_store_learning(
                                     specialized_db, <<"math_learning", Len(trace)>>,
                                     data, "user_interaction", metadata)} :
                        /\ specialized_db' = done.db
                        /\ threads' = [threads EXCEPT !.learning_sessions =
                                          IF done.raised THEN @ ELSE @ + 1]
                        /\ trace' = Append(trace,
                               [op |-> "store_learning_for_layer",
                                layer_type |-> layer_type,
                                data |-> data,
                                metadata |-> metadata,
                                session_id |-> <<"math_learning", Len(trace)>>,
                                raised |-> done.raised])
           ELSE /\ trace' = Append(trace,
                       [op |-> "store_learning_for_layer",
                        layer_type |-> layer_type,
                        data |-> data,
                        metadata |-> metadata,
                        session_id |-> <<"none", Len(trace)>>,
                        raised |-> FALSE])
                /\ UNCHANGED <<specialized_db, threads>>
    /\ UNCHANGED coreVars

LearnNext == StoreLearningForLayer \/ Close

LearnSpec == LearnInit /\ [][LearnNext]_vars

\* the calls of the trace made for a layer with a database
LearnCalls ==
    {k \in DOMAIN trace :
        /\ trace[k].op = "store_learning_for_layer"
        /\ trace[k].layer_type \in RegisteredDatabases}

\* C28: every store_learning call on a layer's store returns without
\* raising and leaves one learning session of its own, with success True
\* when the data was stored and False otherwise, and the manager's
\* learning_sessions is the number of calls made for layers with a database.
C28_EveryLearningIsLogged ==
    /\ \A k \in LearnCalls :
           /\ ~trace[k].raised
           /\ \E i \in DOMAIN specialized_db.learning_sessions_table :
                  LET row == specialized_db.learning_sessions_table[i]
                  IN  /\ row.session_id = trace[k].session_id
                      /\ row.success = (trace[k].data # "equation_int")
    /\ Len(specialized_db.learning_sessions_table) = Cardinality(LearnCalls)
    /\ threads.learning_sessions = Cardinality(LearnCalls)

(***************************************************************************)
(* Names that are no layer, and names listed twice (Spec)                  *)
(***************************************************************************)
IsCall == ret.op \in {"comprehensive_processing", "targeted_processing"}

\* the call ran its loop over the layers to the end
Completed == IsCall /\ (IsRound => ret.success)

\* the layers process_input was called on, in the order of the calls
Processed == [k \in DOMAIN ret.process_calls |-> ret.process_calls[k].layer]

MaxMonitorCalls == 4    \* start_monitoring and stop_monitoring calls

HistoryLimit == 100

\* BaseraSystemMonitor.__init__
NewMonitor == [monitoring_active |-> FALSE, metrics_history |-> 0, loops |-> << >>]

MonitorInit ==
    /\ layers = [n \in LayerNames |-> NewLayer]
    /\ synchronization_matrix =
           [a \in LayerNames |-> [b \in LayerNames |-> IF a = b THEN NoSync ELSE 0]]
    /\ core_statistics = [total_processed |-> 0, successful_processing |-> 0,
                          average_sync_level |-> <<0, 1>>]
    /\ database = NewDatabase
    /\ ret = NoReturn
    /\ calls = 0
    /\ processing_history = << >>
    /\ specialized_db = NewStore
    /\ trace = << >>
    /\ threads = NewMonitor

MonitorRest == <<layers, synchronization_matrix, core_statistics, database, ret,
                 processing_history, specialized_db>>

\* start_monitoring: nothing when monitoring_active, else the flag is set
\* and a new thread starts _monitor_loop
StartMonitoring ==
    /\ Len(trace) < MaxMonitorCalls
    /\ trace' = Append(trace, "start_monitoring")
    /\ threads' = IF threads.monitoring_active THEN threads
                  ELSE [threads EXCEPT
                           !.monitoring_active = TRUE,
                           !.loops = Append(@, [pc |-> "while", stopped |-> FALSE,
                                                resumed |-> FALSE])]
    /\ UNCHANGED <<MonitorRest, calls>>

\* stop_monitoring: the flag is cleared; join(timeout=2) returns after two
\* seconds whether or not the thread has left its loop
StopMonitoring ==
    /\ Len(trace) < MaxMonitorCalls
    /\ trace' = Append(trace, "stop_monitoring")
    /\ threads' = [threads EXCEPT
                      !.monitoring_active = FALSE,
                      !.loops = [i \in DOMAIN @ |->
                                    IF @[i].pc = "exited" THEN @[i]
                                    ELSE [@[i] EXCEPT !.stopped = TRUE]]]
    /\ UNCHANGED <<MonitorRest, calls>>

\* while self.monitoring_active: one sample is appended, the history is cut
\* to its last 100 entries, and the thread sleeps; or the loop ends
LoopIteration ==
    /\ \E i \in DOMAIN threads.loops :
           /\ threads.loops[i].pc = "while"
           /\ threads' =
                  IF threads.monitoring_active
                      THEN [threads EXCEPT
                               !.metrics_history =
                                   IF @ + 1 > HistoryLimit THEN HistoryLimit ELSE @ + 1,
                               !.loops[i].pc = "sleep",
                               !.loops[i].resumed = threads.loops[i].stopped]
                  ELSE [threads EXCEPT !.loops[i].pc = "exited"]
    /\ UNCHANGED <<MonitorRest, calls, trace>>

\* time.sleep(interval) returns
LoopWake ==
    /\ \E i \in DOMAIN threads.loops :
           /\ threads.loops[i].pc = "sleep"
           /\ threads' = [threads EXCEPT !.loops[i].pc = "while"]
    /\ UNCHANGED <<MonitorRest, calls, trace>>

MonitorNext == StartMonitoring \/ StopMonitoring \/ LoopIteration \/ LoopWake

MonitorSpec == MonitorInit /\ [][MonitorNext]_vars

\* the threads that have not left _monitor_loop
Running == {i \in DOMAIN threads.loops : threads.loops[i].pc # "exited"}

\* C30: over any sequence of start_monitoring and stop_monitoring calls at
\* most one thread is inside _monitor_loop, and a thread that was running
\* when stop_monitoring was called takes no sample afterwards on seeing
\* the flag set by a later start_monitoring.
C30_AtMostOneMonitorLoop ==
    /\ Cardinality(Running) <= 1
    /\ \A i \in DOMAIN threads.loops : ~threads.loops[i].resumed

====
